---- MODULE Spec2Model ----
(***************************************************************************)
(* Query-execution core of the Flink SQL workbench:                        *)
(*   SessionManager           (src/src/services/sessionManager.js)         *)
(*   StatementExecutionEngine (src/src/services/statementExecutionEngine.js)*)
(*   StatementManager         (src/src/services/statementManager.js)       *)
(* JavaScript is single threaded: the code between two suspension points   *)
(* (a pending remote call, a timer) runs atomically, so every action below *)
(* is the code that runs from one suspension point to the next.            *)
(***************************************************************************)
EXTENDS Integers, Sequences, FiniteSets, TLC

VARIABLES
    script,           \* gateway: the result stream served for each statement
    ex,               \* one StatementExecutionEngine per statement id
    currentSession,   \* SessionManager.currentSession (a handle or NoSession)
    nextHandle,       \* gateway: the next session handle createSession hands out
    gwClosed,         \* gateway: handles for which closeSession has been issued
    activeStatements, \* StatementManager.activeStatements (ids registered)
    events,           \* per statement id, what global observers received, in order
    cancelCall,       \* per statement id, the StatementManager.cancelStatement call
    closeCall,        \* the StatementManager.closeSession / refreshSession call
    cancelAllCall,    \* the StatementManager.cancelAllStatements call
    delivered,        \* per statement id, the rounds of calls made to observers
    globalObservers,  \* StatementManager.globalObservers (entries of the Set)
    listeners,        \* SessionManager.listeners (the callbacks registered)
    sessionProperties, \* SessionManager.sessionProperties (which object: 0 is the constructor's)
    heard,            \* per session listener, how often it was called and with what last
    batch,            \* App.jsx executeBatchQueries: its position, results and error flag
    hook              \* one useStatementExecution instance: its refs, calls and timers

vars == <<script, ex, currentSession, nextHandle, gwClosed, activeStatements,
          events, cancelCall, closeCall, cancelAllCall, delivered, globalObservers,
          listeners, sessionProperties, heard, batch, hook>>

(***************************************************************************)
(* Bounds of the model.                                                    *)
(***************************************************************************)
MaxEvents == 3        \* change events in one operation's result stream
MaxExecEvents == 2    \* the same, where remote calls may fail (SpecExec)
MaxSysPages == 2      \* pages in the stream of each of two concurrent statements (Spec)
MaxRegistrations == 2 \* addObserver calls on one engine
MaxUpdates == 1       \* updateSessionProperties calls
MaxSessions == 3      \* session handles the gateway hands out

(***************************************************************************)
(* Values.                                                                 *)
(***************************************************************************)
Execs == {"s1", "s2"}
NoSession == 0
NoOp == "none"
OpHandleOf(e) == IF e = "s1" THEN "op1" ELSE "op2"

Null == "<null>"
Undefined == "<undefined>"

\* Field tuples of the rows the gateway can send (positional values).
RowSeqOf(e) == IF e = "s1" THEN <<(<<"1", "a">>), (<<"2", "b">>)>>
                            ELSE <<(<<"3", "x">>)>>
RowsOf(e) == {RowSeqOf(e)[i] : i \in DOMAIN RowSeqOf(e)}

ColsA == <<"id", "name">>
ColsB == <<"key">>
NoCols == <<>>

NoUri == <<"none">>
BadUri == <<"bad">>
ResultUri(n) == <<"result", n>>

FieldKeys == <<"field_0", "field_1", "field_2">>
ColumnKeys == <<"column_0", "column_1", "column_2">>

(***************************************************************************)
(* The gateway's result stream of one operation: a sequence of pages; the  *)
(* page served for token t is pages[t + 1].                                *)
(***************************************************************************)
Event(kind, fields) == [kind |-> kind, hasFields |-> TRUE, fields |-> fields]

\* The ways of cutting n events into non-empty pages (page lengths, in order).
RECURSIVE Compositions(_)
Compositions(n) ==
    IF n = 0 THEN {<<>>}
    ELSE UNION {{<<k>> \o c : c \in Compositions(n - k)} : k \in 1..n}

RECURSIVE SumTo(_, _)
SumTo(c, i) == IF i = 0 THEN 0 ELSE c[i] + SumTo(c, i - 1)

\* Which pages carry a column list.
ColModes == {"none", "first", "change", "late"}

PageColumns(mode, i) ==
    CASE mode = "none" -> NoCols
      [] mode = "first" -> IF i = 1 THEN ColsA ELSE NoCols
      [] mode = "change" -> IF i = 1 THEN ColsA ELSE ColsB
      [] mode = "late" -> IF i = 1 THEN NoCols ELSE ColsA

Page(rt, rk, cols, data, next) ==
    [resultType |-> rt, resultKind |-> rk, columns |-> cols, data |-> data,
     nextResultUri |-> next]

\* How a stream ends: with end-of-stream; with an end-of-stream page that
\* still carries a further-page pointer; with a page that has neither
\* end-of-stream nor a further-page pointer; with a page whose pointer does not
\* parse; or never (the last page points at itself).
Tails == {"eos", "eosuri", "nouri", "baduri", "loop"}

\* A result stream: its change events, how they are cut into pages, which
\* pages carry columns, whether the pages are marked as carrying content, and
\* how the stream ends.
Stream(evs, comp, mode, kind, tail) ==
    [evs |-> evs, comp |-> comp, mode |-> mode, kind |-> kind, tail |-> tail]

NumPages(s) == IF Len(s.comp) = 0 THEN 1 ELSE Len(s.comp)

\* Page i (token i - 1) of a stream: every page but the last is PAYLOAD and
\* points at the next token.
PageOf(s, i) ==
    LET last == i = NumPages(s)
    IN Page(IF last /\ s.tail \in {"eos", "eosuri"} THEN "EOS" ELSE "PAYLOAD",
            s.kind,
            PageColumns(s.mode, i),
            IF Len(s.comp) = 0 THEN <<>>
            ELSE SubSeq(s.evs, SumTo(s.comp, i - 1) + 1, SumTo(s.comp, i)),
            IF ~last THEN ResultUri(i)
            ELSE CASE s.tail = "eos" -> NoUri
                   [] s.tail = "eosuri" -> ResultUri(i)
                   [] s.tail = "nouri" -> NoUri
                   [] s.tail = "baduri" -> BadUri
                   [] s.tail = "loop" -> ResultUri(i - 1))

FoldKinds == {"INSERT", "UPDATE_BEFORE", "UPDATE_AFTER", "DELETE"}
FoldEvents(e) == {Event(k, r) : k \in FoldKinds, r \in RowsOf(e)}

(***************************************************************************)
(* Row objects.  A JavaScript object is modelled as the sequence of its    *)
(* <<key, value>> pairs in insertion order, keys unique.                   *)
(***************************************************************************)
Keys(obj) == {obj[i][1] : i \in DOMAIN obj}
Val(obj, k) == IF k \in Keys(obj)
               THEN obj[CHOOSE i \in DOMAIN obj : obj[i][1] = k][2]
               ELSE Undefined

\* rowObject[key] = value
SetKey(obj, k, v) ==
    IF k \in Keys(obj)
    THEN [i \in DOMAIN obj |-> IF obj[i][1] = k THEN <<k, v>> ELSE obj[i]]
    ELSE Append(obj, <<k, v>>)

\* The key of the field at JavaScript index j (lines 258-266): the column's
\* name when columns are known, column_j when that column is missing or has
\* no name, field_j when no columns are known.
KeyForIndex(columns, j) ==
    IF Len(columns) > 0
    THEN IF j + 1 <= Len(columns) /\ columns[j + 1] # "" THEN columns[j + 1]
         ELSE ColumnKeys[j + 1]
    ELSE FieldKeys[j + 1]

RECURSIVE RowObjectUpTo(_, _, _)
RowObjectUpTo(fields, columns, n) ==
    IF n = 0 THEN <<>>
    ELSE SetKey(RowObjectUpTo(fields, columns, n - 1),
                KeyForIndex(columns, n - 1), fields[n])

RowObject(fields, columns) == RowObjectUpTo(fields, columns, Len(fields))

\* The positional values of a row object.
RowValues(obj) == [i \in DOMAIN obj |-> obj[i][2]]

ValuesMatch(val1, val2) ==
    IF val1 = Null /\ val2 = Null THEN TRUE
    ELSE IF val1 = Undefined /\ val2 = Undefined THEN TRUE
    ELSE IF val1 = Null \/ val1 = Undefined \/ val2 = Null \/ val2 = Undefined THEN FALSE
    ELSE val1 = val2

\* Mutant of rowsMatch: null and absent are treated alike.
rowsMatchLoose(row1, row2) ==
    \A k \in Keys(row1) \cup Keys(row2) :
        LET v1 == IF Val(row1, k) = Undefined THEN Null ELSE Val(row1, k)
            v2 == IF Val(row2, k) = Undefined THEN Null ELSE Val(row2, k)
        IN v1 = v2

\* rowsMatch(row1, row2) (lines 110-148): the same number of keys, the same
\* keys, and matching values.
rowsMatch(row1, row2) ==
    /\ Len(row1) = Len(row2)
    /\ Keys(row1) = Keys(row2)
    /\ \A k \in Keys(row1) : ValuesMatch(Val(row1, k), Val(row2, k))

\* Mutant of FindIndex: the -1 of "not found" reaches splice, which then
\* removes the last row.
FindIndexUnchecked(results, rowObject) ==
    IF \E i \in DOMAIN results : rowsMatch(results[i], rowObject)
    THEN CHOOSE i \in DOMAIN results :
            /\ rowsMatch(results[i], rowObject)
            /\ \A j \in 1..(i - 1) : ~rowsMatch(results[j], rowObject)
    ELSE Len(results)

\* Array.prototype.findIndex, 1-based; 0 when no row matches.
FindIndex(results, rowObject) ==
    IF \E i \in DOMAIN results : rowsMatch(results[i], rowObject)
    THEN CHOOSE i \in DOMAIN results :
            /\ rowsMatch(results[i], rowObject)
            /\ \A j \in 1..(i - 1) : ~rowsMatch(results[j], rowObject)
    ELSE 0

\* Array.prototype.splice(i, 1), 1-based.
Splice(results, i) ==
    [j \in 1..(Len(results) - 1) |-> IF j < i THEN results[j] ELSE results[j + 1]]

\* Mutant of RemoveAt: every row equal to the matched one is removed.
RemoveEvery(results, i) ==
    SelectSeq(results, LAMBDA row : ~rowsMatch(row, results[i]))

\* What a matching UPDATE_BEFORE / DELETE does to the rows (lines 283-288, 302-308).
RemoveAt(results, i) == Splice(results, i)

\* Mutant of ApplyEvent: UPDATE_AFTER overwrites the last row in place.
ApplyEventInPlace(acc, row, columns) ==
    LET rowObject == RowObject(row.fields, columns)
        idx == FindIndex(acc.results, rowObject)
    IN CASE row.kind = "INSERT" -> [acc EXCEPT !.results = Append(@, rowObject)]
         [] row.kind = "UPDATE_AFTER" ->
              IF Len(acc.results) = 0 THEN [acc EXCEPT !.results = Append(@, rowObject)]
              ELSE [acc EXCEPT !.results[Len(acc.results)] = rowObject]
         [] row.kind \in {"UPDATE_BEFORE", "DELETE"} ->
              IF idx # 0 THEN [acc EXCEPT !.results = RemoveAt(@, idx)]
              ELSE [acc EXCEPT !.diag = @ + 1]
         [] OTHER -> [acc EXCEPT !.results = Append(@, rowObject), !.diag = @ + 1]

\* Mutant of ApplyEvent: an event of an unrecognized kind is dropped with a
\* diagnostic.
ApplyEventDropsUnknown(acc, row, columns) ==
    IF ~row.hasFields THEN acc
    ELSE LET rowObject == RowObject(row.fields, columns)
             idx == FindIndex(acc.results, rowObject)
         IN CASE row.kind \in {"INSERT", "UPDATE_AFTER"} ->
                   [acc EXCEPT !.results = Append(@, rowObject)]
              [] row.kind \in {"UPDATE_BEFORE", "DELETE"} ->
                   IF idx # 0 THEN [acc EXCEPT !.results = RemoveAt(@, idx)]
                   ELSE [acc EXCEPT !.diag = @ + 1]
              [] OTHER -> [acc EXCEPT !.diag = @ + 1]

\* One change event applied to acc = [results, diag] (lines 255-318); diag
\* counts the 'warn' diagnostics logged.
ApplyEvent(acc, row, columns) ==
    IF ~row.hasFields THEN acc
    ELSE LET rowObject == RowObject(row.fields, columns)
             idx == FindIndex(acc.results, rowObject)
         IN CASE row.kind \in {"INSERT", "UPDATE_AFTER"} ->
                   [acc EXCEPT !.results = Append(@, rowObject)]
              [] row.kind \in {"UPDATE_BEFORE", "DELETE"} ->
                   IF idx # 0 THEN [acc EXCEPT !.results = RemoveAt(@, idx)]
                   ELSE [acc EXCEPT !.diag = @ + 1]
              [] OTHER ->
                   [acc EXCEPT !.results = Append(@, rowObject), !.diag = @ + 1]

RECURSIVE ApplyEvents(_, _, _, _)
ApplyEvents(acc, newRows, columns, n) ==
    IF n = 0 THEN acc
    ELSE ApplyEvent(ApplyEvents(acc, newRows, columns, n - 1), newRows[n], columns)

(***************************************************************************)
(* StatementExecutionEngine state (constructor, lines 11-31).              *)
(***************************************************************************)
maxLoops == 1000

EngineInit ==
    [pc |-> "idle",
     cancelled |-> FALSE,
     operationHandle |-> NoOp,
     session |-> NoSession,            \* executeSQL's local `session`
     state |-> [statementExecutionState |-> "STOPPED",
                resultType |-> "EOS",
                resultKind |-> "SUCCESS",
                results |-> <<>>,
                columns |-> <<>>],
     nextToken |-> 0,
     loopCount |-> 0,
     currentPollingLoop |-> "none",    \* none | pending | settled
     outcome |-> "none",               \* COMPLETED | CANCELLED | FAILED
     diag |-> 0,
     cancelAttempts |-> 0,             \* times lines 377-384 were entered
     remoteCancels |-> 0,              \* cancel requests sent to the gateway
     inflight |-> 0,                   \* getOperationResults calls not yet answered
     lastUpdateTime |-> 0,             \* state.lastUpdateTime, as the number of times it was set
     observers |-> <<>>]               \* the entries of the Set, in insertion order

\* Object.assign(this.state, updates)
Assign(state, updates) ==
    [k \in DOMAIN state |-> IF k \in DOMAIN updates THEN updates[k] ELSE state[k]]

HasChanges(state, updates) == \E k \in DOMAIN updates : state[k] # updates[k]

\* What the StatementManager's internal observer publishes for a state event.
StateEvent(state) ==
    IF state.statementExecutionState = "RUNNING" THEN "state_RUNNING" ELSE "state_STOPPED"

(***************************************************************************)
(* A step threads a record w through the code it runs:                     *)
(*   eng     the engine of statement e      log    events[e]               *)
(*   reg     activeStatements               cancel cancelCall[e]           *)
(*   close   closeCall                      gwClosed                       *)
(*   all     cancelAllCall                  calls  delivered[e]            *)
(*   gobs    globalObservers                hook   hook                    *)
(*   id      e                                                             *)
(***************************************************************************)
\* The one element of a singleton set: Once({F(v) : v \in {x}}) is F(x) with x
\* evaluated once.
Once(S) == CHOOSE r \in S : TRUE

World(e) ==
    [eng |-> ex[e], log |-> events[e], reg |-> activeStatements,
     cancel |-> cancelCall[e], close |-> closeCall, gwClosed |-> gwClosed,
     all |-> cancelAllCall, calls |-> delivered[e], gobs |-> globalObservers,
     hook |-> hook, id |-> e]

Commit(e, w) ==
    \E v \in {w} :
        /\ ex' = [ex EXCEPT ![e] = v.eng]
        /\ events' = [events EXCEPT ![e] = v.log]
        /\ activeStatements' = v.reg
        /\ cancelCall' = [cancelCall EXCEPT ![e] = v.cancel]
        /\ closeCall' = v.close
        /\ gwClosed' = v.gwClosed
        /\ cancelAllCall' = v.all
        /\ delivered' = [delivered EXCEPT ![e] = v.calls]
        /\ globalObservers' = v.gobs
        /\ hook' = v.hook

\* An observer function: `until` tells when it calls removeObserver on itself
\* while it is being called: never, on any call, or when what it is handed
\* says STOPPED.  ManagerObserver is the one of lines 159-171.
Observer(id, until) == [id |-> id, until |-> until]

Untils == {"never", "any", "STOPPED"}

Leaves(o, stopped) == o.until = "any" \/ (o.until = "STOPPED" /\ stopped)

ManagerObserver == Observer("manager", "never")

\* What Set.prototype.delete leaves in the entry list while the Set is being
\* iterated: the slot stays, emptied, and is dropped when no iteration is left.
EmptySlot == Observer("empty", "never")

Ids(data) == {data[i].id : i \in DOMAIN data} \ {"empty"}

SetAdd(data, o) == IF o.id \in Ids(data) THEN data ELSE Append(data, o)

Live(o) == o.id # "empty"

SetDelete(data, id) == SelectSeq(data, LAMBDA o : o.id # id)

\* Mutant of forEach: an entry deleted during the iteration is spliced out of
\* the list at once, so the entries behind it move up under the cursor.
RECURSIVE forEachSpliced(_, _, _, _)
forEachSpliced(data, stopped, i, calls) ==
    IF i > Len(data) THEN [data |-> data, calls |-> calls]
    ELSE forEachSpliced(IF Leaves(data[i], stopped) THEN SetDelete(data, data[i].id)
                        ELSE data,
                        stopped, i + 1, Append(calls, data[i].id))

\* this.observers.forEach(observer => observer(...)) (lines 87-93) from entry i
\* on, `stopped` telling whether what is handed over says STOPPED: every live
\* entry is called once, in insertion order; an observer that removes itself
\* empties its own slot and the cursor moves on to the next.
RECURSIVE forEach(_, _, _, _)
forEach(data, stopped, i, calls) ==
    IF i > Len(data) THEN [data |-> SelectSeq(data, Live), calls |-> calls]
    ELSE IF ~Live(data[i]) THEN forEach(data, stopped, i + 1, calls)
    ELSE forEach(IF Leaves(data[i], stopped) THEN [data EXCEPT ![i] = EmptySlot]
                 ELSE data,
                 stopped, i + 1, Append(calls, data[i].id))

Stopped(state) == state.statementExecutionState = "STOPPED"

\* One round of calls to observers: the snapshot they are handed (its phase and
\* number of rows), who was registered when the round began, who was called, in
\* order, and who removed itself while being called.
Round(cause, state, data, calls, stopped) ==
    [cause |-> cause,
     phase |-> state.statementExecutionState,
     rows |-> Len(state.results),
     registered |-> Ids(data),
     calls |-> calls,
     removed |-> {data[i].id : i \in {j \in DOMAIN data : Leaves(data[j], stopped)}}
                    \cap {calls[i] : i \in DOMAIN calls}]

(***************************************************************************)
(* useStatementExecution (src/src/hooks/useStatementExecution.js).         *)
(***************************************************************************)
\* The observer function that the executeSQL call for statement e creates
\* (lines 74-205): every call creates a new function.
HookObserverOf(e) == IF e = "s1" THEN "h1" ELSE "h2"

HookObservers == {HookObserverOf(e) : e \in Execs}

\* The refs after mounting (lines 15-16), no executeSQL call awaiting its
\* statement, no timer pending.
HookInit ==
    [observerRef |-> "null", currentStatementIdRef |-> "null",
     calls |-> {}, timers |-> [e \in Execs |-> 0], mounted |-> TRUE]

\* cleanup (lines 19-26): remove the function observerRef holds from the global
\* observers, clear both refs.
cleanup(w) ==
    [w EXCEPT !.gobs = IF w.hook.observerRef # "null"
                       THEN SetDelete(@, w.hook.observerRef) ELSE @,
              !.hook.observerRef = "null",
              !.hook.currentStatementIdRef = "null"]

\* The hook's observer functions among `calls` handed event ev of statement
\* x.id (lines 83-204): for the current statement, a state event or a
\* statement_completed whose state says STOPPED starts a timer of 1000 ms
\* (lines 186-197), once per function called.
Observed(x, ev, calls) ==
    LET n == Cardinality({i \in DOMAIN calls : calls[i] \in HookObservers})
        executionState ==
            IF ev \in {"state_STOPPED", "state_RUNNING", "completed"}
            THEN x.eng.state.statementExecutionState ELSE "null"
    IN IF x.hook.currentStatementIdRef = x.id /\ executionState = "STOPPED"
       THEN [x.hook EXCEPT !.timers[x.id] = @ + n]
       ELSE x.hook

\* The catch of the hook's executeSQL (lines 231-241) when the call for
\* statement e is awaiting statementManager.executeSQL: cleanup().
HookCatch(w, e) ==
    IF e \in w.hook.calls
    THEN cleanup([w EXCEPT !.hook.calls = @ \ {e}])
    ELSE w

\* notifyGlobalObservers(event) (statementManager.js lines 49-84) for an event
\* of statement e that passes its shape checks: the event is handed to every
\* global observer.
Published1(x, ev, r) ==
    [x EXCEPT !.log = Append(@, ev),
              !.gobs = r.data,
              !.hook = Observed(x, ev, r.calls),
              !.calls = Append(@, Round("publish", x.eng.state, x.gobs, r.calls,
                                        ev = "state_STOPPED"))]

Publish(v, ev) ==
    Once({Once({Published1(x, ev, r)
                   : r \in {forEach(x.gobs, ev = "state_STOPPED", 1, <<>>)}})
             : x \in {v}})

\* Mutant of Relay: the observer does not deregister on STOPPED.
RelayKeepsEntry(v, e) ==
    Publish(v, StateEvent(v.eng.state))

\* The observer StatementManager.executeSQL attaches to its engine
\* (statementManager.js lines 159-171): forward the event to the global
\* observers, deregister the statement once STOPPED.
Relay(v, e) ==
    Publish([v EXCEPT !.reg = IF v.eng.state.statementExecutionState = "STOPPED"
                              THEN @ \ {e} ELSE @],
            StateEvent(v.eng.state))

\* notifyObservers (lines 85-94): r is what the iteration over the Set of
\* engine x did.
Deliver(x, e, r) ==
    LET v1 == [x EXCEPT !.eng.observers = r.data,
                        !.calls = Append(@, Round("notify", x.eng.state,
                                                  x.eng.observers, r.calls,
                                                  Stopped(x.eng.state)))]
    IN IF \E i \in DOMAIN r.calls : r.calls[i] = "manager"
       THEN Once({Relay(y, e) : y \in {v1}})
       ELSE v1

notifyObservers(v, e) ==
    Once({Once({Deliver(x, e, r)
                   : r \in {forEach(x.eng.observers, Stopped(x.eng.state), 1, <<>>)}})
             : x \in {v}})

\* Mutant of updateState: the comparison is missing, every update is assigned,
\* stamped and published.
updateStateAlways(w, e, updates) ==
    LET Apply(v) ==
            notifyObservers([v EXCEPT !.eng.state = Assign(v.eng.state, updates),
                                      !.eng.lastUpdateTime = @ + 1], e)
    IN Once({Apply(v) : v \in {w}})

\* updateState (lines 97-107): when a value has changed, assign, set
\* lastUpdateTime and notify the observers.
updateState(w, e, updates) ==
    LET Apply(v) ==
            IF HasChanges(v.eng.state, updates)
            THEN notifyObservers([v EXCEPT !.eng.state = Assign(v.eng.state, updates),
                                           !.eng.lastUpdateTime = @ + 1], e)
            ELSE v
    IN Once({Apply(v) : v \in {w}})

RunningMarkers ==
    [statementExecutionState |-> "RUNNING", resultType |-> "EOS",
     resultKind |-> "SUCCESS", results |-> <<>>, columns |-> <<>>]
\* Mutant of ErrorMarkers: the failure only stops the execution.
ErrorMarkersStopOnly == [statementExecutionState |-> "STOPPED"]

ErrorMarkers ==
    [statementExecutionState |-> "STOPPED", resultType |-> "ERROR", resultKind |-> "ERROR"]
\* Mutant of CancelledMarkers: cancellation also clears the rows.
CancelledMarkersClear ==
    [statementExecutionState |-> "STOPPED", resultType |-> "CANCELLED",
     resultKind |-> "CANCELLED", results |-> <<>>]

CancelledMarkers ==
    [statementExecutionState |-> "STOPPED", resultType |-> "CANCELLED",
     resultKind |-> "CANCELLED"]
\* Mutant of StoppedOnly: the final update leaves the phase as it is.
StillRunning == [statementExecutionState |-> "RUNNING"]

StoppedOnly == [statementExecutionState |-> "STOPPED"]

(***************************************************************************)
(* StatementManager.closeSession / refreshSession (lines 115-137) and      *)
(* cancelStatement (lines 214-240): the code after their awaits.           *)
(***************************************************************************)
CloseIdle ==
    [pc |-> "idle", waiting |-> {}, refresh |-> FALSE, handle |-> NoSession,
     raised |-> FALSE]    \* raised: the call ended by throwing to its caller

\* After Promise.allSettled: clear the registry, then SessionManager.closeSession
\* up to its remote call (sessionManager.js lines 174-182); when there is no
\* current session it returns at once and a refresh goes on to createSession.
CloseProceed(w, cs) ==
    IF cs = NoSession
    THEN [w EXCEPT !.reg = {},
                   !.close.waiting = {},
                   !.close.pc = IF w.close.refresh THEN "awaitCreate" ELSE "done"]
    ELSE [w EXCEPT !.reg = {},
                   !.close.waiting = {},
                   !.close.pc = "awaitClose",
                   !.close.handle = cs,
                   !.gwClosed = @ \cup {cs}]

\* cancelStatement after `await engine.cancel()` (lines 225-235).
CancelResolved(w, e) ==
    Publish([w EXCEPT !.reg = @ \ {e}, !.cancel = "resolved"], "cancelled")

\* cancelAllStatements (lines 243-268): no call, no engine awaited, no entry.
CancelAllIdle ==
    [pc |-> "idle", targets |-> {}, waiting |-> {}, report |-> [e \in Execs |-> 0]]

\* Mutant of CancelAllSettle: the report is built from the registry as it is
\* when every cancellation has settled.
CancelAllSettleLive(w, done) ==
    LET left == w.all.waiting \ done
    IN IF left = {}
       THEN [w EXCEPT !.all.waiting = {},
                      !.all.report = [e \in Execs |-> IF e \in w.reg THEN 1 ELSE 0],
                      !.all.pc = "done",
                      !.reg = {}]
       ELSE [w EXCEPT !.all.waiting = left]

\* cancelAllStatements, the engines in `done` have answered engine.cancel():
\* each wrapper returns its report entry (lines 246-254); when none is left
\* Promise.allSettled resumes the call, which clears the registry and returns
\* the report (lines 256-267). Its all_statements_cancelled event carries no
\* statementId, so notifyGlobalObservers (lines 58-63) hands it to no observer.
CancelAllSettle(w, done) ==
    LET left == w.all.waiting \ done
        report == [e \in Execs |-> w.all.report[e] + (IF e \in done THEN 1 ELSE 0)]
    IN IF left = {}
       THEN [w EXCEPT !.all.waiting = {}, !.all.report = report, !.all.pc = "done",
                      !.reg = {}]
       ELSE [w EXCEPT !.all.waiting = left, !.all.report = report]

\* Everything that awaited the engine's polling promise resumes when it settles:
\* a pending cancelStatement, then a pending closeSession, then a pending
\* cancelAllStatements.
Waiters(w, e, cs) ==
    LET Resume(v) ==
            LET w1 == IF v.cancel = "awaiting" THEN CancelResolved(v, e) ELSE v
                left == w1.close.waiting \ {e}
                w2 == IF w1.close.pc = "awaitCancels" /\ e \in w1.close.waiting
                      THEN IF left = {} THEN CloseProceed(w1, cs)
                           ELSE [w1 EXCEPT !.close.waiting = left]
                      ELSE w1
            IN IF w2.all.pc = "awaitCancels" /\ e \in w2.all.waiting
               THEN CancelAllSettle(w2, {e})
               ELSE w2
    IN Once({Resume(v) : v \in {w}})

\* engine.executeSQL returned (status COMPLETED or CANCELLED): StatementManager
\* publishes statement_completed (lines 183-194).
Settled(w, e, outcome, cs) ==
    Waiters(Publish([w EXCEPT !.eng.pc = "done",
                              !.eng.outcome = outcome,
                              !.eng.currentPollingLoop = "settled"],
                    "completed"), e, cs)

\* engine.executeSQL threw: its catch (lines 188-198) sets the error markers,
\* StatementManager's catch (lines 196-210) deregisters, publishes
\* statement_error and rethrows to its caller.
Failed(w, e, cs) ==
    LET w1 == updateState(w, e, ErrorMarkers)
    IN HookCatch(Waiters(Publish([w1 EXCEPT !.eng.pc = "done",
                                            !.eng.outcome = "FAILED",
                                            !.eng.currentPollingLoop =
                                                IF @ = "pending" THEN "settled" ELSE @,
                                            !.reg = @ \ {e}],
                                 "error"), e, cs), e)

(***************************************************************************)
(* pollForResults (lines 202-417).                                         *)
(***************************************************************************)
\* The methods of the FlinkApiService instance the engine is given (flinkApi.js
\* lines 17-462).
FlinkApiMethods ==
    {"setBaseUrl", "setCredentials", "getProxyUrl", "request", "getInfo",
     "createSession", "getSession", "closeSession", "submitStatement",
     "getOperationStatus", "getOperationResults", "getOperationError",
     "getAllResults", "extractRootCause", "analyzeResultStructure"}

\* Lines 372-398.  this.flinkApi.cancelOperation(...) (line 379) sends a request
\* only if the method exists; otherwise the call throws a TypeError inside the
\* try, no remote call leaves, and the code goes on.
PollCancelled(w, e, cs) ==
    LET w1 == IF w.eng.operationHandle # NoOp
              THEN [w EXCEPT !.eng.cancelAttempts = @ + 1,
                             !.eng.remoteCancels =
                                 IF "cancelOperation" \in FlinkApiMethods
                                 THEN @ + 1 ELSE @]
              ELSE w
    IN Settled(updateState(w1, e, CancelledMarkers), e, "CANCELLED", cs)

\* Mutant of PollCompleted: the final state update is left out.
PollCompletedSilent(w, e, cs) == Settled(w, e, "COMPLETED", cs)

\* Lines 400-416.
PollCompleted(w, e, cs) ==
    Settled(updateState(w, e, StoppedOnly), e, "COMPLETED", cs)

\* Lines 358-369.
PollError(w, e, cs) ==
    Failed(updateState([w EXCEPT !.eng.inflight = @ - 1], e, ErrorMarkers), e, cs)

\* Mutant of PollLoopTop: the ceiling is tested with <=.
PollLoopTopInclusive(w, e, cs) ==
    IF w.eng.loopCount <= maxLoops /\ ~w.eng.cancelled
    THEN [w EXCEPT !.eng.loopCount = @ + 1, !.eng.inflight = @ + 1,
                   !.eng.pc = "awaitFetch"]
    ELSE IF w.eng.cancelled THEN PollCancelled(w, e, cs)
    ELSE PollCompleted(w, e, cs)

\* Mutant of PollLoopTop: reaching the ceiling is treated as a failure.
PollLoopTopCeilingError(w, e, cs) ==
    IF w.eng.loopCount < maxLoops /\ ~w.eng.cancelled
    THEN [w EXCEPT !.eng.loopCount = @ + 1, !.eng.inflight = @ + 1,
                   !.eng.pc = "awaitFetch"]
    ELSE IF w.eng.cancelled THEN PollCancelled(w, e, cs)
    ELSE Failed(w, e, cs)

\* The while condition with shouldContinue true (line 208) and the start of an
\* iteration up to the fetch (lines 209-218); after the loop, lines 372-416.
PollLoopTop(w, e, cs) ==
    IF w.eng.loopCount < maxLoops /\ ~w.eng.cancelled
    THEN [w EXCEPT !.eng.loopCount = @ + 1, !.eng.inflight = @ + 1,
                   !.eng.pc = "awaitFetch"]
    ELSE IF w.eng.cancelled THEN PollCancelled(w, e, cs)
    ELSE PollCompleted(w, e, cs)

\* Mutant of CaptureColumns: every page that carries columns replaces them.
CaptureColumnsLatest(stored, pageColumns) ==
    IF Len(pageColumns) > 0 THEN pageColumns ELSE stored

\* Lines 231-238: the columns are taken from a page only while none are stored.
CaptureColumns(stored, pageColumns) ==
    IF Len(stored) = 0 /\ Len(pageColumns) > 0 THEN pageColumns ELSE stored

\* The key schema the rows of a page are built with (lines 258-267): the
\* columns stored before this page's update is applied.
RowKeyColumns(stored, pageColumns) == stored

\* Mutant of StateUpdates: the rows of a page replace the accumulated rows.
StateUpdatesReplace(eng, response) ==
    LET base == [resultType |-> response.resultType, resultKind |-> response.resultKind]
        cols == CaptureColumns(eng.state.columns, response.columns)
        withCols == IF cols # eng.state.columns
                    THEN ("columns" :> cols) @@ base ELSE base
        folds == /\ response.resultKind = "SUCCESS_WITH_CONTENT"
                 /\ Len(response.data) > 0
        acc == ApplyEvents([results |-> <<>>, diag |-> 0],
                           response.data,
                           RowKeyColumns(eng.state.columns, response.columns),
                           Len(response.data))
    IN [updates |-> IF folds THEN ("results" :> acc.results) @@ withCols ELSE withCols,
        diag |-> IF folds THEN acc.diag ELSE 0]

\* Lines 225-333: the stateUpdates of one page.
StateUpdates(eng, response) ==
    LET base == [resultType |-> response.resultType, resultKind |-> response.resultKind]
        cols == CaptureColumns(eng.state.columns, response.columns)
        withCols == IF cols # eng.state.columns
                    THEN ("columns" :> cols) @@ base ELSE base
        folds == /\ response.resultKind = "SUCCESS_WITH_CONTENT"
                 /\ Len(response.data) > 0
        acc == ApplyEvents([results |-> eng.state.results, diag |-> 0],
                           response.data,
                           RowKeyColumns(eng.state.columns, response.columns),
                           Len(response.data))
    IN [updates |-> IF folds THEN ("results" :> acc.results) @@ withCols ELSE withCols,
        diag |-> IF folds THEN acc.diag ELSE 0]

\* /result\/(\d+)/ on nextResultUri, then parseInt (lines 340-342); -1: no match.
TokenMatch(uri) == IF Len(uri) = 2 /\ uri[1] = "result" THEN uri[2] ELSE -1

\* Mutant of OnResponse: the further-page pointer is looked at before the
\* end-of-stream marker.
OnResponsePointerFirst(w, e, response, cs) ==
    IF w.eng.cancelled THEN PollCancelled([w EXCEPT !.eng.inflight = @ - 1], e, cs)
    ELSE LET su == StateUpdates(w.eng, response)
             w1 == updateState([w EXCEPT !.eng.diag = @ + su.diag,
                                         !.eng.inflight = @ - 1], e, su.updates)
         IN IF response.nextResultUri # NoUri /\ TokenMatch(response.nextResultUri) # -1
            THEN [w1 EXCEPT !.eng.nextToken = TokenMatch(response.nextResultUri),
                            !.eng.pc = "sleeping"]
            ELSE PollCompleted(w1, e, cs)

\* Mutant of OnResponse: the flag is not tested when the response arrives
\* (lines 219-222 missing); the page's markers and columns are recorded, its
\* rows are skipped (line 241), and the loop then ends as cancelled.
OnResponseNoBreak(w, e, response, cs) ==
    LET su == StateUpdates(w.eng, response)
        late == [k \in DOMAIN su.updates \ {"results"} |-> su.updates[k]]
        w1 == updateState([w EXCEPT !.eng.diag = @ + (IF w.eng.cancelled THEN 0 ELSE su.diag),
                                    !.eng.inflight = @ - 1], e,
                          IF w.eng.cancelled THEN late ELSE su.updates)
    IN IF w.eng.cancelled THEN PollCancelled(w1, e, cs)
       ELSE IF response.resultType = "EOS" THEN PollCompleted(w1, e, cs)
       ELSE IF response.nextResultUri # NoUri
            THEN IF TokenMatch(response.nextResultUri) # -1
                 THEN [w1 EXCEPT !.eng.nextToken = TokenMatch(response.nextResultUri),
                                 !.eng.pc = "sleeping"]
                 ELSE PollCompleted(w1, e, cs)
       ELSE PollCompleted(w1, e, cs)

\* Mutant of OnResponse: when the page points at a further page, that page is
\* requested at once, before the sleep.
OnResponsePrefetch(w, e, response, cs) ==
    IF w.eng.cancelled THEN PollCancelled([w EXCEPT !.eng.inflight = @ - 1], e, cs)
    ELSE LET su == StateUpdates(w.eng, response)
             w1 == updateState([w EXCEPT !.eng.diag = @ + su.diag,
                                         !.eng.inflight = @ - 1], e, su.updates)
         IN IF response.resultType = "EOS" THEN PollCompleted(w1, e, cs)
            ELSE IF response.nextResultUri # NoUri
                 THEN IF TokenMatch(response.nextResultUri) # -1
                      THEN [w1 EXCEPT !.eng.nextToken = TokenMatch(response.nextResultUri),
                                      !.eng.inflight = @ + 1,
                                      !.eng.pc = "sleeping"]
                      ELSE PollCompleted(w1, e, cs)
            ELSE PollCompleted(w1, e, cs)

\* Lines 220-356: a response arrived.
OnResponse(w, e, response, cs) ==
    IF w.eng.cancelled THEN PollCancelled([w EXCEPT !.eng.inflight = @ - 1], e, cs)
    ELSE LET su == StateUpdates(w.eng, response)
             w1 == updateState([w EXCEPT !.eng.diag = @ + su.diag,
                                         !.eng.inflight = @ - 1], e, su.updates)
         IN IF response.resultType = "EOS" THEN PollCompleted(w1, e, cs)
            ELSE IF response.nextResultUri # NoUri
                 THEN IF TokenMatch(response.nextResultUri) # -1
                      THEN [w1 EXCEPT !.eng.nextToken = TokenMatch(response.nextResultUri),
                                      !.eng.pc = "sleeping"]
                      ELSE PollCompleted(w1, e, cs)
            ELSE PollCompleted(w1, e, cs)

(***************************************************************************)
(* The gateway.                                                            *)
(***************************************************************************)
OwnerOf(op) == CHOOSE e \in Execs : OpHandleOf(e) = op

\* getOperationResults(sessionHandle, operationHandle, token) (flinkApi.js
\* lines 254-273): the page of that operation at that token.
HasPage(op, token) == op # NoOp /\ token + 1 \in 1..NumPages(script[OwnerOf(op)])

\* Mutant of PageAt: one result buffer for all operations.
PageAtShared(op, token) == PageOf(script["s1"], token + 1)

PageAt(op, token) == PageOf(script[OwnerOf(op)], token + 1)

(***************************************************************************)
(* SessionManager (sessionManager.js lines 103-198), as called by the      *)
(* engine's executeSQL (statementExecutionEngine.js lines 151-199).        *)
(***************************************************************************)
SessionListeners == {"x", "y"}

\* getSessionInfo() (sessionManager.js lines 79-89) when the current session is
\* cs and the properties object is props.
getSessionInfo(cs, props) ==
    [sessionHandle |-> cs, isActive |-> cs # NoSession, properties |-> props]

\* notifyListeners() (lines 68-76), called when the current session has become
\* cs and the properties props: every registered callback is called with
\* getSessionInfo().
Heard(n, info) == [calls |-> n, last |-> info]

notifyListeners(cs, props) ==
    /\ heard' = [l \in SessionListeners |->
                    IF l \in listeners
                    THEN Heard(heard[l].calls + 1, getSessionInfo(cs, props))
                    ELSE heard[l]]
    /\ listeners' = listeners

SessionVarsUnchanged ==
    UNCHANGED <<currentSession, nextHandle, listeners, sessionProperties, heard>>

\* StatementManager.executeSQL (lines 144-183) and engine.executeSQL up to its
\* first remote call (lines 151-170): register, publish statement_started,
\* reset the state to RUNNING, then getSession(): create when there is no
\* current session, otherwise reuse it and probe it with validateSession().
\* The statement text fixes the result stream s the gateway will serve for it.
Execute(e, s) ==
    /\ ex[e].pc = "idle"
    /\ script' = [script EXCEPT ![e] = s]
    /\ LET w0 == Publish([World(e) EXCEPT !.eng.observers = <<ManagerObserver>>,
                                          !.reg = @ \cup {e},
                                          !.eng.cancelled = FALSE,
                                          !.eng.operationHandle = NoOp],
                         "started")
           w1 == updateState(w0, e, RunningMarkers)
       IN IF currentSession = NoSession
          THEN Commit(e, [w1 EXCEPT !.eng.pc = "awaitCreate"])
          ELSE Commit(e, [w1 EXCEPT !.eng.pc = "awaitValidate",
                                    !.eng.session = currentSession])
    /\ SessionVarsUnchanged
    /\ batch' = batch

\* flinkApi.createSession answered inside getSession() (sessionManager.js lines
\* 115-129, 144-150): the new session becomes current, getSession returns it,
\* and validateSession() probes it.
CreateReturn(e) ==
    /\ ex[e].pc = "awaitCreate"
    /\ nextHandle <= MaxSessions
    /\ currentSession' = nextHandle
    /\ notifyListeners(nextHandle, sessionProperties)
    /\ sessionProperties' = sessionProperties
    /\ nextHandle' = nextHandle + 1
    /\ Commit(e, [World(e) EXCEPT !.eng.pc = "awaitValidate",
                                  !.eng.session = nextHandle])
    /\ UNCHANGED <<script, batch>>

\* Mutant of CreateFail: the catch does not clear the current session.
CreateFailKeepsSession(e) ==
    /\ ex[e].pc \in {"awaitCreate", "awaitRecreate"}
    /\ Commit(e, Failed(World(e), e, currentSession))
    /\ UNCHANGED <<script, batch, nextHandle, currentSession, listeners, sessionProperties, heard>>

\* flinkApi.createSession failed (sessionManager.js lines 131-137): no current
\* session is left and the error reaches executeSQL's catch.
CreateFail(e) ==
    /\ ex[e].pc \in {"awaitCreate", "awaitRecreate"}
    /\ currentSession' = NoSession
    /\ notifyListeners(NoSession, sessionProperties)
    /\ sessionProperties' = sessionProperties
    /\ Commit(e, Failed(World(e), e, NoSession))
    /\ UNCHANGED <<script, batch, nextHandle>>

\* The validity probe answered (sessionManager.js lines 159-163): submit on
\* session.sessionHandle (statementExecutionEngine.js line 178).
ValidateReturn(e) ==
    /\ ex[e].pc = "awaitValidate"
    /\ Commit(e, [World(e) EXCEPT !.eng.pc = "awaitSubmit"])
    /\ SessionVarsUnchanged
    /\ UNCHANGED <<script, batch>>

\* The validity probe failed (sessionManager.js lines 164-170): the current
\* session is cleared, validateSession returns false and executeSQL calls
\* createSession() (statementExecutionEngine.js lines 171-174).
ValidateFail(e) ==
    /\ ex[e].pc = "awaitValidate"
    /\ currentSession' = NoSession
    /\ notifyListeners(NoSession, sessionProperties)
    /\ sessionProperties' = sessionProperties
    /\ Commit(e, [World(e) EXCEPT !.eng.pc = "awaitRecreate"])
    /\ UNCHANGED <<script, batch, nextHandle>>

\* That createSession() answered: the new session becomes current; the statement
\* is submitted on the local `session` obtained before (line 178).
RecreateReturn(e) ==
    /\ ex[e].pc = "awaitRecreate"
    /\ nextHandle <= MaxSessions
    /\ currentSession' = nextHandle
    /\ notifyListeners(nextHandle, sessionProperties)
    /\ sessionProperties' = sessionProperties
    /\ nextHandle' = nextHandle + 1
    /\ Commit(e, [World(e) EXCEPT !.eng.pc = "awaitSubmit"])
    /\ UNCHANGED <<script, batch>>

\* submitStatement answered (lines 178-184): store the operation handle and
\* start the polling loop, which runs up to its first fetch.
SubmitReturn(e) ==
    /\ ex[e].pc = "awaitSubmit"
    /\ Commit(e, PollLoopTop([World(e) EXCEPT !.eng.operationHandle = OpHandleOf(e),
                                              !.eng.currentPollingLoop = "pending"],
                             e, currentSession))
    /\ SessionVarsUnchanged
    /\ UNCHANGED <<script, batch>>

\* submitStatement failed (lines 188-198).
SubmitFail(e) ==
    /\ ex[e].pc = "awaitSubmit"
    /\ Commit(e, Failed(World(e), e, currentSession))
    /\ SessionVarsUnchanged
    /\ UNCHANGED <<script, batch>>

\* getOperationResults answered with the page at the requested token.
FetchReturn(e) ==
    /\ ex[e].pc = "awaitFetch"
    /\ HasPage(ex[e].operationHandle, ex[e].nextToken)
    /\ Commit(e, OnResponse(World(e), e,
                            PageAt(ex[e].operationHandle, ex[e].nextToken),
                            currentSession))
    /\ SessionVarsUnchanged
    /\ UNCHANGED <<script, batch>>

\* getOperationResults failed (lines 358-369).
FetchFail(e) ==
    /\ ex[e].pc = "awaitFetch"
    /\ Commit(e, PollError(World(e), e, currentSession))
    /\ SessionVarsUnchanged
    /\ UNCHANGED <<script, batch>>

\* sleepWithCancellationCheck (lines 419-425) ends, because the second has
\* passed or the flag was seen after a 50 ms slice; the loop condition is
\* evaluated again.
SleepElapsed(e) ==
    /\ ex[e].pc = "sleeping"
    /\ Commit(e, PollLoopTop(World(e), e, currentSession))
    /\ SessionVarsUnchanged
    /\ UNCHANGED <<script, batch>>

\* Mutant of CancelStatement: the registry lookup is not checked.
CancelStatementUnchecked(e) ==
    /\ cancelCall[e] = "none"
    /\ LET w == [World(e) EXCEPT !.eng.cancelled = TRUE]
       IN IF w.eng.currentPollingLoop = "pending"
          THEN Commit(e, [w EXCEPT !.cancel = "awaiting"])
          ELSE Commit(e, CancelResolved(w, e))
    /\ SessionVarsUnchanged
    /\ UNCHANGED <<script, batch>>

\* StatementManager.cancelStatement(statementId) (lines 214-240) with
\* engine.cancel() (statementExecutionEngine.js lines 428-442).
CancelStatement(e) ==
    /\ cancelCall[e] = "none"
    /\ IF e \notin activeStatements
       THEN /\ cancelCall' = [cancelCall EXCEPT ![e] = "notfound"]
            /\ UNCHANGED <<ex, events, activeStatements, closeCall, gwClosed,
                           cancelAllCall, delivered, globalObservers, hook>>
       ELSE LET w == [World(e) EXCEPT !.eng.cancelled = TRUE]
            IN IF w.eng.currentPollingLoop = "pending"
               THEN Commit(e, [w EXCEPT !.cancel = "awaiting"])
               ELSE Commit(e, CancelResolved(w, e))
    /\ SessionVarsUnchanged
    /\ UNCHANGED <<script, batch>>

Listeners == {"a", "b"}

Registrations(e) ==
    Cardinality({i \in DOMAIN delivered[e] : delivered[e][i].cause = "add"})

\* Mutant of AddObserver: the current state is handed over only while RUNNING.
AddObserverRunningOnly(e, o, until) ==
    /\ ex[e].pc # "idle"
    /\ Registrations(e) < MaxRegistrations
    /\ LET data == SetAdd(ex[e].observers, Observer(o, until))
           own == CHOOSE x \in {data[i] : i \in DOMAIN data} : x.id = o
           now == ex[e].state.statementExecutionState = "RUNNING"
       IN /\ ex' = [ex EXCEPT ![e].observers =
                        IF now /\ Leaves(own, Stopped(ex[e].state))
                        THEN SetDelete(data, o) ELSE data]
          /\ delivered' = [delivered EXCEPT ![e] =
                              Append(@, Round("add", ex[e].state, <<own>>,
                                              IF now THEN <<o>> ELSE <<>>,
                                              Stopped(ex[e].state)))]
    /\ UNCHANGED <<script, batch, hook, currentSession, listeners, sessionProperties,
                   heard, nextHandle, gwClosed, activeStatements,
                   events, cancelCall, closeCall, cancelAllCall, globalObservers>>

\* engine.addObserver(observer) (statementExecutionEngine.js lines 54-66) on the
\* engine of statement e, by whoever holds it, StatementManager's
\* addStatementObserver (statementManager.js lines 286-293) included: add to the
\* Set, then hand over the current state when there are rows or the engine is
\* RUNNING.  An observer that removes itself on that call is gone again.
AddObserver(e, o, until) ==
    /\ ex[e].pc # "idle"
    /\ Registrations(e) < MaxRegistrations
    /\ LET data == SetAdd(ex[e].observers, Observer(o, until))
           own == CHOOSE x \in {data[i] : i \in DOMAIN data} : x.id = o
           now == \/ Len(ex[e].state.results) > 0
                  \/ ex[e].state.statementExecutionState = "RUNNING"
       IN /\ ex' = [ex EXCEPT ![e].observers =
                        IF now /\ Leaves(own, Stopped(ex[e].state))
                        THEN SetDelete(data, o) ELSE data]
          /\ delivered' = [delivered EXCEPT ![e] =
                              Append(@, Round("add", ex[e].state, <<own>>,
                                              IF now THEN <<o>> ELSE <<>>,
                                              Stopped(ex[e].state)))]
    /\ UNCHANGED <<script, batch, hook, currentSession, listeners, sessionProperties,
                   heard, nextHandle, gwClosed, activeStatements,
                   events, cancelCall, closeCall, cancelAllCall, globalObservers>>

\* engine.removeObserver(observer) (lines 69-72) for a registered observer.
RemoveObserver(e, o) ==
    /\ o \in Ids(ex[e].observers)
    /\ ex' = [ex EXCEPT ![e].observers = SetDelete(@, o)]
    /\ UNCHANGED <<script, batch, hook, currentSession, listeners, sessionProperties,
                   heard, nextHandle, gwClosed, activeStatements,
                   events, cancelCall, closeCall, cancelAllCall, delivered, globalObservers>>

SessionRestUnchanged ==
    UNCHANGED <<script, batch, hook, ex, nextHandle, gwClosed, activeStatements, events, cancelCall,
                closeCall, cancelAllCall, delivered, globalObservers>>

\* SessionManager.addListener(callback) (sessionManager.js lines 58-60).
AddListener(l) ==
    /\ l \notin listeners
    /\ listeners' = listeners \cup {l}
    /\ UNCHANGED <<currentSession, sessionProperties, heard>>
    /\ SessionRestUnchanged

\* SessionManager.removeListener(callback) (lines 63-65).
RemoveListener(l) ==
    /\ l \in listeners
    /\ listeners' = listeners \ {l}
    /\ UNCHANGED <<currentSession, sessionProperties, heard>>
    /\ SessionRestUnchanged

\* Mutant of updateSessionProperties: the listeners are called before the new
\* properties are stored.
updateSessionPropertiesLate ==
    /\ sessionProperties < MaxUpdates
    /\ sessionProperties' = sessionProperties + 1
    /\ notifyListeners(currentSession, sessionProperties)
    /\ UNCHANGED currentSession
    /\ SessionRestUnchanged

\* SessionManager.updateSessionProperties(newProperties) (lines 92-100): store a
\* new properties object, then notify.
updateSessionProperties ==
    /\ sessionProperties < MaxUpdates
    /\ sessionProperties' = sessionProperties + 1
    /\ notifyListeners(currentSession, sessionProperties + 1)
    /\ UNCHANGED currentSession
    /\ SessionRestUnchanged

\* StatementManager.addGlobalObserver(observer) (statementManager.js lines
\* 37-40): add to the Set; nothing is handed over.
AddGlobalObserver(o, until) ==
    /\ globalObservers' = SetAdd(globalObservers, Observer(o, until))
    /\ UNCHANGED <<script, batch, hook, ex, currentSession, listeners, sessionProperties,
                   heard, nextHandle, gwClosed, activeStatements,
                   events, cancelCall, closeCall, cancelAllCall, delivered>>

\* StatementManager.removeGlobalObserver(observer) (lines 43-46) for a
\* registered observer.
RemoveGlobalObserver(o) ==
    /\ o \in Ids(globalObservers)
    /\ globalObservers' = SetDelete(globalObservers, o)
    /\ UNCHANGED <<script, batch, hook, ex, currentSession, listeners, sessionProperties,
                   heard, nextHandle, gwClosed, activeStatements,
                   events, cancelCall, closeCall, cancelAllCall, delivered>>

\* StatementManager.cancelAllStatements (lines 243-268) up to its await:
\* engine.cancel() on every engine registered now sets its flag and waits for
\* its polling promise when it has one; an engine without one answers at once.
CancelAllStatements ==
    /\ cancelAllCall.pc = "idle"
    /\ LET targets == activeStatements
           waiting == {e \in targets : ex[e].currentPollingLoop = "pending"}
           call == [cancelAllCall EXCEPT !.targets = targets, !.waiting = targets,
                                         !.pc = "awaitCancels"]
           w == CancelAllSettle([World("s1") EXCEPT !.all = call], targets \ waiting)
       IN /\ ex' = [e \in Execs |->
                      IF e \in targets THEN [ex[e] EXCEPT !.cancelled = TRUE] ELSE ex[e]]
          /\ cancelAllCall' = w.all
          /\ activeStatements' = w.reg
    /\ UNCHANGED <<script, batch, hook, events, cancelCall, closeCall, gwClosed, currentSession,
                   listeners, sessionProperties, heard,
                   nextHandle, delivered, globalObservers>>

\* StatementManager.closeSession (lines 115-131), or refreshSession (lines
\* 133-137) when refresh: engine.cancel() on every registered engine, which
\* sets its flag and waits for its polling promise when it has one.
CloseSession(refresh) ==
    /\ closeCall.pc = "idle"
    /\ LET waiting == {e \in activeStatements : ex[e].currentPollingLoop = "pending"}
           call == [closeCall EXCEPT !.refresh = refresh]
           w == [World("s1") EXCEPT !.close = call]
       IN /\ ex' = [e \in Execs |->
                      IF e \in activeStatements THEN [ex[e] EXCEPT !.cancelled = TRUE]
                      ELSE ex[e]]
          /\ IF waiting # {}
             THEN /\ closeCall' = [call EXCEPT !.pc = "awaitCancels", !.waiting = waiting]
                  /\ UNCHANGED <<activeStatements, gwClosed>>
             ELSE /\ closeCall' = CloseProceed(w, currentSession).close
                  /\ activeStatements' = {}
                  /\ gwClosed' = CloseProceed(w, currentSession).gwClosed
    /\ UNCHANGED <<script, batch, hook, events, cancelCall, currentSession, listeners,
                   sessionProperties, heard, nextHandle,
                   cancelAllCall, delivered, globalObservers>>

\* SessionManager.closeSession after its remote call (sessionManager.js lines
\* 183-190): whether the close succeeded or failed, the finally block clears
\* the current session; a refresh then calls createSession().
AfterClose ==
    /\ currentSession' = NoSession
    /\ notifyListeners(NoSession, sessionProperties)
    /\ sessionProperties' = sessionProperties
    /\ closeCall' = [closeCall EXCEPT !.pc = IF closeCall.refresh THEN "awaitCreate" ELSE "done"]
    /\ UNCHANGED <<script, batch, hook, ex, nextHandle, gwClosed, activeStatements, events, cancelCall,
                   cancelAllCall, delivered, globalObservers>>

CloseReturn == closeCall.pc = "awaitClose" /\ AfterClose

\* Mutant of CloseFail: the close error reaches the caller before the current
\* session is cleared.
CloseFailRaises ==
    /\ closeCall.pc = "awaitClose"
    /\ closeCall' = [closeCall EXCEPT !.pc = "done", !.raised = TRUE]
    /\ UNCHANGED <<script, batch, hook, ex, currentSession, listeners, sessionProperties,
                   heard, nextHandle, gwClosed, activeStatements,
                   events, cancelCall, cancelAllCall, delivered, globalObservers>>

CloseFail == closeCall.pc = "awaitClose" /\ AfterClose

\* refreshSession's createSession() answered (sessionManager.js lines 115-129).
RefreshCreateReturn ==
    /\ closeCall.pc = "awaitCreate"
    /\ nextHandle <= MaxSessions
    /\ currentSession' = nextHandle
    /\ notifyListeners(nextHandle, sessionProperties)
    /\ sessionProperties' = sessionProperties
    /\ nextHandle' = nextHandle + 1
    /\ closeCall' = [closeCall EXCEPT !.pc = "done"]
    /\ UNCHANGED <<script, batch, hook, ex, gwClosed, activeStatements, events, cancelCall,
                   cancelAllCall, delivered, globalObservers>>

\* refreshSession's createSession() failed (sessionManager.js lines 131-137):
\* the error reaches the caller of refreshSession.
RefreshCreateFail ==
    /\ closeCall.pc = "awaitCreate"
    /\ currentSession' = NoSession
    /\ notifyListeners(NoSession, sessionProperties)
    /\ sessionProperties' = sessionProperties
    /\ closeCall' = [closeCall EXCEPT !.pc = "done", !.raised = TRUE]
    /\ UNCHANGED <<script, batch, hook, ex, nextHandle, gwClosed, activeStatements, events, cancelCall,
                   cancelAllCall, delivered, globalObservers>>

(***************************************************************************)
(* Specifications.                                                         *)
(***************************************************************************)
NoStream == Stream(<<>>, <<>>, "none", "SUCCESS", "eos")

\* ---------------------------------------------------------------------------
\* App.jsx executeBatchQueries (lines 1064-1217): "Execute All".

\* The statements splitSqlStatements found in the editor (lines 1070-1071), by
\* the statement id each one is executed under; a batch has at least two
\* (a single statement goes to executeQuery, lines 1078-1081).
BatchStatements == <<"s1", "s2">>

\* isBatchExecuting false, nothing collected (App.jsx lines 607, 1103-1104).
BatchIdle == [pc |-> "idle", i |-> 0, results |-> <<>>, hasErrors |-> FALSE]

\* The entry pushed to results for statement i (lines 1127-1135, 1171-1180).
BatchResult(i, status) == [index |-> i, status |-> status]

\* Everything but the batch.
BatchRestUnchanged ==
    UNCHANGED <<script, ex, currentSession, nextHandle, gwClosed, activeStatements,
                events, cancelCall, closeCall, cancelAllCall, delivered,
                globalObservers, listeners, sessionProperties, heard, hook>>

\* Lines 1064-1108: the button is ignored while a batch runs; otherwise the
\* loop starts at the first statement.
executeBatchQueries ==
    /\ batch.pc = "idle"
    /\ batch' = [pc |-> "calling", i |-> 1, results |-> <<>>, hasErrors |-> FALSE]
    /\ BatchRestUnchanged

\* Lines 1123-1189: executeMainSQL(statement) has settled.  A returned result is
\* pushed with its status and the loop goes on unless the status is ERROR or
\* FAILED (lines 1144-1151); a thrown error is pushed as ERROR and the loop
\* breaks (lines 1153-1184).  After the last statement, or after a break, the
\* batch is finished (lines 1192-1217); otherwise it waits 100 ms (line 1188).
BatchSettle ==
    /\ batch.pc = "calling"
    /\ LET e == BatchStatements[batch.i]
           thrown == ex[e].outcome = "FAILED"
           status == IF thrown THEN "ERROR" ELSE ex[e].outcome
           stop == thrown \/ status \in {"ERROR", "FAILED"}
       IN /\ ex[e].pc = "done"
          /\ batch' = [batch EXCEPT
                 !.results = Append(@, BatchResult(batch.i, status)),
                 !.hasErrors = @ \/ stop,
                 !.pc = IF stop \/ batch.i = Len(BatchStatements)
                        THEN "finished" ELSE "delay"]
    /\ BatchRestUnchanged

\* Lines 1188-1189 and the loop header (line 1110): the delay between two
\* statements is over and the next statement is taken.
BatchDelayElapsed ==
    /\ batch.pc = "delay"
    /\ batch' = [batch EXCEPT !.pc = "calling", !.i = @ + 1]
    /\ BatchRestUnchanged

Init ==
    /\ script = [e \in Execs |-> NoStream]
    /\ ex = [e \in Execs |-> EngineInit]
    /\ currentSession = NoSession
    /\ nextHandle = 1
    /\ gwClosed = {}
    /\ activeStatements = {}
    /\ events = [e \in Execs |-> <<>>]
    /\ cancelCall = [e \in Execs |-> "none"]
    /\ closeCall = CloseIdle
    /\ cancelAllCall = CancelAllIdle
    /\ delivered = [e \in Execs |-> <<>>]
    /\ globalObservers = <<>>
    /\ listeners = {}
    /\ sessionProperties = 0
    /\ heard = [l \in SessionListeners |-> Heard(0, getSessionInfo(NoSession, 0))]
    /\ batch = BatchIdle
    /\ hook = HookInit

\* SpecFold: one statement whose result stream is any well-formed changelog of
\* content pages; every remote call succeeds.
ExecuteFold(e) ==
    /\ ex[e].pc = "idle"
    /\ \E n \in 0..MaxEvents : \E evs \in [1..n -> FoldEvents(e)] :
        \E comp \in Compositions(n) : \E mode \in ColModes :
            Execute(e, Stream(evs, comp, mode, "SUCCESS_WITH_CONTENT", "eos"))

NextFold ==
    \/ ExecuteFold("s1")
    \/ CreateReturn("s1")
    \/ ValidateReturn("s1")
    \/ SubmitReturn("s1")
    \/ FetchReturn("s1")
    \/ SleepElapsed("s1")

SpecFold == Init /\ [][NextFold]_vars

\* SpecRemove: one statement whose stream is up to MaxRows INSERTs, rows
\* repeated at will, followed by one UPDATE_BEFORE or DELETE, cut into pages in
\* any way, with the columns announced in any of the ways; every remote call
\* succeeds.
MaxRows == 3

ExecuteRemove(e) ==
    /\ ex[e].pc = "idle"
    /\ \E n \in 0..MaxRows : \E ins \in [1..n -> RowsOf(e)] :
        \E k \in {"UPDATE_BEFORE", "DELETE"} : \E r \in RowsOf(e) :
            \E comp \in Compositions(n + 1) : \E mode \in ColModes :
                Execute(e, Stream([i \in 1..(n + 1) |->
                                      IF i <= n THEN Event("INSERT", ins[i])
                                      ELSE Event(k, r)],
                                  comp, mode, "SUCCESS_WITH_CONTENT", "eos"))

NextRemove ==
    \/ ExecuteRemove("s1")
    \/ CreateReturn("s1")
    \/ ValidateReturn("s1")
    \/ SubmitReturn("s1")
    \/ FetchReturn("s1")
    \/ SleepElapsed("s1")

SpecRemove == Init /\ [][NextRemove]_vars

\* SpecNull: one statement whose stream is an INSERT and then an UPDATE_BEFORE
\* or DELETE, the rows of one or two fields of which any may be null (JSON
\* null); a row of one field has its second field absent.
NullValues == {"1", Null}
NullRows == {<<v>> : v \in NullValues} \cup {<<v, w>> : v \in NullValues, w \in NullValues}

ExecuteNull(e) ==
    /\ ex[e].pc = "idle"
    /\ \E r1 \in NullRows : \E r2 \in NullRows :
        \E k \in {"UPDATE_BEFORE", "DELETE"} :
            \E comp \in Compositions(2) : \E mode \in ColModes :
                Execute(e, Stream(<<Event("INSERT", r1), Event(k, r2)>>,
                                  comp, mode, "SUCCESS_WITH_CONTENT", "eos"))

NextNull ==
    \/ ExecuteNull("s1")
    \/ CreateReturn("s1")
    \/ ValidateReturn("s1")
    \/ SubmitReturn("s1")
    \/ FetchReturn("s1")
    \/ SleepElapsed("s1")

SpecNull == Init /\ [][NextNull]_vars

\* SpecExec: one statement; any remote call may fail, the stream may end in any
\* way or never, and the statement may be cancelled at any moment.
ExecEvents(e) ==
    {Event(k, r) : k \in {"INSERT", "DELETE"}, r \in RowsOf(e)}
        \cup {Event("BOGUS", RowSeqOf(e)[1])}

\* A stream that never ends: an empty page that points at itself.
Endless == Stream(<<>>, <<>>, "none", "SUCCESS_WITH_CONTENT", "loop")

ExecuteExec(e) ==
    /\ ex[e].pc = "idle"
    /\ \/ \E n \in 0..MaxExecEvents : \E evs \in [1..n -> ExecEvents(e)] :
            \E comp \in Compositions(n) :
                \E kind \in {"SUCCESS_WITH_CONTENT", "SUCCESS"} :
                    \E tail \in {"eos", "nouri", "baduri"} :
                        Execute(e, Stream(evs, comp, "none", kind, tail))
       \/ Execute(e, Endless)

\* The answers to the remote calls and the timer of the statement.
RespondExec ==
    \/ CreateFail("s1")
    \/ ValidateFail("s1")
    \/ SubmitFail("s1")
    \/ FetchFail("s1")
    \/ SleepElapsed("s1")
    \/ CreateReturn("s1")
    \/ ValidateReturn("s1")
    \/ RecreateReturn("s1")
    \/ SubmitReturn("s1")
    \/ FetchReturn("s1")

NextExec ==
    \/ ExecuteExec("s1")
    \/ CreateReturn("s1")
    \/ CreateFail("s1")
    \/ ValidateReturn("s1")
    \/ ValidateFail("s1")
    \/ RecreateReturn("s1")
    \/ SubmitReturn("s1")
    \/ SubmitFail("s1")
    \/ FetchReturn("s1")
    \/ FetchFail("s1")
    \/ SleepElapsed("s1")
    \/ CancelStatement("s1")

SpecExec == Init /\ [][NextExec]_vars

\* Every remote call eventually returns or fails, and timers fire.
FairExec == SpecExec /\ WF_vars(RespondExec)

\* SpecPaging: one statement whose stream is up to MaxExecEvents events
\* (INSERT, DELETE or of an unrecognized kind) cut into pages in any way and
\* ending in any of the ways, or the stream that never ends; every remote call
\* succeeds.
\* A stream that never ends after a first page with one row: the second page
\* is empty and points at itself.
EndlessAfterRow(e) ==
    Stream(<<Event("INSERT", RowSeqOf(e)[1])>>, <<1, 0>>, "none",
           "SUCCESS_WITH_CONTENT", "loop")

ExecutePaging(e) ==
    /\ ex[e].pc = "idle"
    /\ \/ \E n \in 0..MaxExecEvents : \E evs \in [1..n -> ExecEvents(e)] :
            \E comp \in Compositions(n) :
                \E tail \in Tails \ {"loop"} :
                    Execute(e, Stream(evs, comp, "none", "SUCCESS_WITH_CONTENT", tail))
       \/ Execute(e, Endless)
       \/ Execute(e, EndlessAfterRow(e))

NextPaging ==
    \/ ExecutePaging("s1")
    \/ CreateReturn("s1")
    \/ ValidateReturn("s1")
    \/ SubmitReturn("s1")
    \/ FetchReturn("s1")
    \/ SleepElapsed("s1")

SpecPaging == Init /\ [][NextPaging]_vars

\* SpecLate: one statement whose stream is up to MaxExecEvents INSERTs cut into
\* pages in any way, the columns announced in any of the ways; the statement
\* may be cancelled at any moment and a fetch may fail.
ExecuteLate(e) ==
    /\ ex[e].pc = "idle"
    /\ \E n \in 0..MaxExecEvents : \E evs \in [1..n -> {Event("INSERT", r) : r \in RowsOf(e)}] :
        \E comp \in Compositions(n) : \E mode \in ColModes :
            Execute(e, Stream(evs, comp, mode, "SUCCESS_WITH_CONTENT", "eos"))

NextLate ==
    \/ ExecuteLate("s1")
    \/ CreateReturn("s1")
    \/ ValidateReturn("s1")
    \/ SubmitReturn("s1")
    \/ FetchReturn("s1")
    \/ FetchFail("s1")
    \/ SleepElapsed("s1")
    \/ CancelStatement("s1")

SpecLate == Init /\ [][NextLate]_vars

\* Spec: the whole core: two statements on the shared session, cancellation of
\* either, and one closeSession or refreshSession call.  Session creation,
\* validation and submission succeed; a fetch, a close or the refresh's create
\* may fail.
\* Each statement's stream is 1..MaxSysPages content pages of one INSERT of a
\* row of that statement.
SysRow(e, i) == RowSeqOf(e)[((i - 1) % Len(RowSeqOf(e))) + 1]

ExecuteSys(e) ==
    /\ ex[e].pc = "idle"
    /\ \E p \in 1..MaxSysPages :
          Execute(e, Stream([i \in 1..p |-> Event("INSERT", SysRow(e, i))],
                                 [i \in 1..p |-> 1],
                                 "first", "SUCCESS_WITH_CONTENT", "eos"))

Next ==
    \/ \E e \in Execs : ExecuteSys(e)
    \/ \E e \in Execs : CreateReturn(e)
    \/ \E e \in Execs : ValidateReturn(e)
    \/ \E e \in Execs : SubmitReturn(e)
    \/ \E e \in Execs : FetchReturn(e)
    \/ \E e \in Execs : FetchFail(e)
    \/ \E e \in Execs : SleepElapsed(e)
    \/ \E e \in Execs : CancelStatement(e)
    \/ \E refresh \in BOOLEAN : CloseSession(refresh)
    \/ CloseReturn
    \/ CloseFail
    \/ RefreshCreateReturn
    \/ RefreshCreateFail

Spec == Init /\ [][Next]_vars

\* SpecHook: one mounted useStatementExecution instance whose executeSQL is
\* called for two statements at any times; a fetch may fail; the component may
\* unmount.  Each statement's stream is up to MaxSysPages pages of one row.
\* The hook's executeSQL for statement id e (lines 34-61, 70-74, 207-222): set
\* the current id, replace the function in observerRef, register it when the
\* ref was empty, then StatementManager.executeSQL as in Execute.
HookExecuteSQL(e) ==
    /\ hook.mounted
    /\ ex[e].pc = "idle"
    /\ \E p \in 1..MaxSysPages :
          script' = [script EXCEPT ![e] =
                        Stream([i \in 1..p |-> Event("INSERT", SysRow(e, i))],
                               [i \in 1..p |-> 1],
                               "first", "SUCCESS_WITH_CONTENT", "eos")]
    /\ LET needsNewObserver == hook.observerRef = "null"
           wh == [World(e) EXCEPT !.hook.currentStatementIdRef = e,
                                  !.hook.observerRef = HookObserverOf(e),
                                  !.hook.calls = @ \cup {e},
                                  !.gobs = IF needsNewObserver
                                           THEN SetAdd(@, Observer(HookObserverOf(e), "never"))
                                           ELSE @]
           w0 == Publish([wh EXCEPT !.eng.observers = <<ManagerObserver>>,
                                    !.reg = @ \cup {e},
                                    !.eng.cancelled = FALSE,
                                    !.eng.operationHandle = NoOp],
                         "started")
           w1 == updateState(w0, e, RunningMarkers)
       IN IF currentSession = NoSession
          THEN Commit(e, [w1 EXCEPT !.eng.pc = "awaitCreate"])
          ELSE Commit(e, [w1 EXCEPT !.eng.pc = "awaitValidate",
                                    !.eng.session = currentSession])
    /\ SessionVarsUnchanged
    /\ batch' = batch

\* A timer started by the observer for statement e fires (lines 193-197):
\* cleanup() when e is still the current statement.
HookTimer(e) ==
    /\ hook.timers[e] > 0
    /\ LET w == [World(e) EXCEPT !.hook.timers[e] = @ - 1]
       IN Commit(e, IF hook.currentStatementIdRef = e THEN cleanup(w) ELSE w)
    /\ SessionVarsUnchanged
    /\ UNCHANGED <<script, batch>>

\* The component unmounts (lines 29-31): cleanup().
Unmount ==
    /\ hook.mounted
    /\ Commit("s1", cleanup([World("s1") EXCEPT !.hook.mounted = FALSE]))
    /\ SessionVarsUnchanged
    /\ UNCHANGED <<script, batch>>

NextHook ==
    \/ \E e \in Execs : HookExecuteSQL(e)
    \/ \E e \in Execs : CreateReturn(e)
    \/ \E e \in Execs : ValidateReturn(e)
    \/ \E e \in Execs : SubmitReturn(e)
    \/ \E e \in Execs : FetchReturn(e)
    \/ \E e \in Execs : FetchFail(e)
    \/ \E e \in Execs : SleepElapsed(e)
    \/ \E e \in Execs : HookTimer(e)
    \/ Unmount

SpecHook == Init /\ [][NextHook]_vars

\* SpecSession: two statements and one closeSession or refreshSession call on
\* the shared session, where every remote session call (create, validity
\* probe, close) and the submission may fail.  Each statement's stream is one
\* page with one row.
ExecuteOne(e) ==
    /\ ex[e].pc = "idle"
    /\ Execute(e, Stream(<<Event("INSERT", SysRow(e, 1))>>, <<1>>,
                         "first", "SUCCESS_WITH_CONTENT", "eos"))

NextSession ==
    \/ \E e \in Execs : ExecuteOne(e)
    \/ \E e \in Execs : CreateReturn(e)
    \/ \E e \in Execs : CreateFail(e)
    \/ \E e \in Execs : ValidateReturn(e)
    \/ \E e \in Execs : ValidateFail(e)
    \/ \E e \in Execs : RecreateReturn(e)
    \/ \E e \in Execs : SubmitReturn(e)
    \/ \E e \in Execs : SubmitFail(e)
    \/ \E e \in Execs : FetchReturn(e)
    \/ \E refresh \in BOOLEAN : CloseSession(refresh)
    \/ CloseReturn
    \/ CloseFail
    \/ RefreshCreateReturn
    \/ RefreshCreateFail

SpecSession == Init /\ [][NextSession]_vars

\* SpecBatch: one batch of the two statements; a session creation, a session
\* probe, a submit or a fetch may fail, and a statement may be cancelled.
ExecuteBatch(e) ==
    /\ batch.pc = "calling"
    /\ e = BatchStatements[batch.i]
    /\ ExecuteSys(e)

NextBatch ==
    \/ executeBatchQueries
    \/ \E e \in Execs : ExecuteBatch(e)
    \/ BatchSettle
    \/ BatchDelayElapsed
    \/ \E e \in Execs : CreateReturn(e)
    \/ \E e \in Execs : CreateFail(e)
    \/ \E e \in Execs : ValidateReturn(e)
    \/ \E e \in Execs : ValidateFail(e)
    \/ \E e \in Execs : RecreateReturn(e)
    \/ \E e \in Execs : SubmitReturn(e)
    \/ \E e \in Execs : SubmitFail(e)
    \/ \E e \in Execs : FetchReturn(e)
    \/ \E e \in Execs : FetchFail(e)
    \/ \E e \in Execs : SleepElapsed(e)
    \/ \E e \in Execs : CancelStatement(e)

SpecBatch == Init /\ [][NextBatch]_vars

\* SpecCancelAll: two statements, a cancelStatement call for each and one
\* cancelAllStatements call; a fetch may fail.
NextCancelAll ==
    \/ \E e \in Execs : ExecuteSys(e)
    \/ \E e \in Execs : CreateReturn(e)
    \/ \E e \in Execs : ValidateReturn(e)
    \/ \E e \in Execs : SubmitReturn(e)
    \/ \E e \in Execs : FetchReturn(e)
    \/ \E e \in Execs : FetchFail(e)
    \/ \E e \in Execs : SleepElapsed(e)
    \/ \E e \in Execs : CancelStatement(e)
    \/ CancelAllStatements

SpecCancelAll == Init /\ [][NextCancelAll]_vars

\* SpecObservers: one statement whose engine gets observers added and removed
\* at any time by a holder of the engine, each of which may remove itself when
\* it is called; a fetch may fail.
NextObservers ==
    \/ ExecuteSys("s1")
    \/ CreateReturn("s1")
    \/ ValidateReturn("s1")
    \/ SubmitReturn("s1")
    \/ FetchReturn("s1")
    \/ FetchFail("s1")
    \/ SleepElapsed("s1")
    \/ \E o \in Listeners : \E until \in Untils : AddObserver("s1", o, until)
    \/ \E o \in Listeners : RemoveObserver("s1", o)

SpecObservers == Init /\ [][NextObservers]_vars

\* SpecListeners: the session calls of one statement, up to its submission, and
\* one closeSession or refreshSession call, where every remote session call may
\* fail; session listeners are added and removed at any time and the session
\* properties are replaced.
NextListeners ==
    \/ ExecuteOne("s1")
    \/ CreateReturn("s1")
    \/ CreateFail("s1")
    \/ ValidateReturn("s1")
    \/ ValidateFail("s1")
    \/ RecreateReturn("s1")
    \/ \E refresh \in BOOLEAN : CloseSession(refresh)
    \/ CloseReturn
    \/ CloseFail
    \/ RefreshCreateReturn
    \/ RefreshCreateFail
    \/ updateSessionProperties
    \/ \E l \in SessionListeners : AddListener(l)
    \/ \E l \in SessionListeners : RemoveListener(l)

SpecListeners == Init /\ [][NextListeners]_vars

\* SpecFanOut: one statement with a one-page stream, whose fetch may fail.
\* Global observers are registered before the statement is executed, as
\* useStatementExecution does (src/hooks/useStatementExecution.js line 213),
\* and removed at any time; observers are added to and removed from the engine
\* at any time; each observer may remove itself when it is called.
RegisterGlobal(o, until) ==
    /\ \A e \in Execs : ex[e].pc = "idle"
    /\ AddGlobalObserver(o, until)

NextFanOut ==
    \/ ExecuteOne("s1")
    \/ CreateReturn("s1")
    \/ ValidateReturn("s1")
    \/ SubmitReturn("s1")
    \/ FetchReturn("s1")
    \/ FetchFail("s1")
    \/ \E o \in Listeners : \E until \in Untils : AddObserver("s1", o, until)
    \/ \E o \in Listeners : RemoveObserver("s1", o)
    \/ \E o \in Listeners : \E until \in Untils : RegisterGlobal(o, until)
    \/ \E o \in Listeners : RemoveGlobalObserver(o)

SpecFanOut == Init /\ [][NextFanOut]_vars

(***************************************************************************)
(* Changelog folding (SpecFold).                                           *)
(***************************************************************************)
Results(e) == ex[e].state.results
ResultValues(e) == [i \in DOMAIN Results(e) |-> RowValues(Results(e)[i])]
FieldsOf(evs) == [i \in DOMAIN evs |-> evs[i].fields]
Done(e) == ex[e].pc = "done"

IsAppend(ev) == ev.kind \in {"INSERT", "UPDATE_AFTER"}
IsRemove(ev) == ev.kind \in {"UPDATE_BEFORE", "DELETE"}
PairwiseDistinct(q) == \A i, j \in DOMAIN q : i # j => q[i] # q[j]

\* C1: when every event of the stream is an INSERT or UPDATE_AFTER and the rows
\* are pairwise distinct, then however the events are cut into pages the rows
\* accumulated at the end are the events' rows, in arrival order.
C1_ReplayInOrder ==
    \A e \in Execs :
        LET evs == script[e].evs
        IN (/\ Done(e)
            /\ \A i \in DOMAIN evs : IsAppend(evs[i])
            /\ PairwiseDistinct(FieldsOf(evs)))
           => ResultValues(e) = FieldsOf(evs)

C1_Witness ==
    /\ Done("s1")
    /\ Len(script["s1"].evs) = 2
    /\ NumPages(script["s1"]) = 2
    /\ script["s1"].evs[1].kind = "INSERT"
    /\ script["s1"].evs[2].kind = "UPDATE_AFTER"
    /\ PairwiseDistinct(FieldsOf(script["s1"].evs))
    /\ Len(Results("s1")) = 2

\* C2: a stream INSERT(r), UPDATE_BEFORE(r), UPDATE_AFTER(r') with r # r', cut
\* into pages in any way, ends with r' among the accumulated rows and r not.
C2_UpdatePairReplaces ==
    \A e \in Execs :
        LET evs == script[e].evs
            vals == {ResultValues(e)[i] : i \in DOMAIN Results(e)}
        IN (/\ Done(e)
            /\ Len(evs) = 3
            /\ evs[1].kind = "INSERT"
            /\ evs[2].kind = "UPDATE_BEFORE"
            /\ evs[3].kind = "UPDATE_AFTER"
            /\ evs[1].fields = evs[2].fields
            /\ evs[3].fields # evs[1].fields)
           => (evs[3].fields \in vals /\ evs[1].fields \notin vals)

\* C8: once an engine has stored a column list, no step changes it.
C8_ColumnsImmutable ==
    [][\A e \in Execs :
          Len(ex[e].state.columns) > 0 => ex'[e].state.columns = ex[e].state.columns]_vars

\* A later page carried a different column list and the first one is still stored.
C8_Witness ==
    /\ Done("s1")
    /\ script["s1"].mode = "change"
    /\ NumPages(script["s1"]) >= 2
    /\ ex["s1"].state.columns = ColsA

\* C9: in a stream where no UPDATE_BEFORE / DELETE has a row that an earlier
\* INSERT / UPDATE_AFTER brought, each of them leaves the rows as they are and
\* logs one diagnostic, and the execution completes: at the end the rows are
\* those of the INSERT / UPDATE_AFTER events, in order, and the diagnostics
\* number the UPDATE_BEFORE / DELETE events.
C9_RemoveOfAbsent ==
    \A e \in Execs :
        LET evs == script[e].evs
        IN (/\ Done(e)
            /\ \A i \in DOMAIN evs :
                  IsRemove(evs[i]) =>
                      \A j \in 1..(i - 1) : ~(IsAppend(evs[j]) /\ evs[j].fields = evs[i].fields))
           => /\ ResultValues(e) = FieldsOf(SelectSeq(evs, IsAppend))
              /\ ex[e].diag = Len(SelectSeq(evs, IsRemove))
              /\ ex[e].outcome = "COMPLETED"
              /\ ex[e].state.statementExecutionState = "STOPPED"

\* An INSERT, then a DELETE of a row that is absent, on two pages.
C9_Witness ==
    /\ Done("s1")
    /\ Len(script["s1"].evs) = 2
    /\ NumPages(script["s1"]) = 2
    /\ script["s1"].evs[1].kind = "INSERT"
    /\ script["s1"].evs[2].kind = "DELETE"
    /\ script["s1"].evs[1].fields # script["s1"].evs[2].fields
    /\ Len(Results("s1")) = 1
    /\ ex["s1"].diag = 1

(***************************************************************************)
(* Cancellation and termination of one execution (SpecExec, FairExec).     *)
(***************************************************************************)
Phase(e) == ex[e].state.statementExecutionState

\* C3: once cancel() has set the flag, no step makes the accumulated rows
\* fewer, and the execution ends in phase STOPPED.
C3_CancelKeepsRows ==
    [][\A e \in Execs :
          ex[e].cancelled =>
              /\ Len(ex'[e].state.results) >= Len(ex[e].state.results)
              /\ (ex'[e].pc = "done" => ex'[e].state.statementExecutionState = "STOPPED")]_vars

\* Cancelled while polling with a row accumulated.
C3_Witness ==
    /\ Done("s1")
    /\ ex["s1"].outcome = "CANCELLED"
    /\ cancelCall["s1"] = "resolved"
    /\ Len(Results("s1")) >= 1
    /\ ex["s1"].loopCount >= 2
    /\ Phase("s1") = "STOPPED"

\* C4: every execution that was started ends, in phase STOPPED.
C4_EndsStopped ==
    \A e \in {"s1"} : (ex[e].pc # "idle") ~> (Done(e) /\ Phase(e) = "STOPPED")

\* A stream that never ends was stopped by the ceiling on fetches.
C4_Witness ==
    /\ Done("s1")
    /\ script["s1"] = Endless
    /\ ~ex["s1"].cancelled
    /\ ex["s1"].loopCount = maxLoops
    /\ Phase("s1") = "STOPPED"

(***************************************************************************)
(* The whole core (Spec).                                                  *)
(***************************************************************************)
\* C5: two getSession() calls never both wait for a createSession answer: at
\* most one remote create is in flight for callers that found no session.
C5_SingleCreate ==
    Cardinality({e \in Execs : ex[e].pc = "awaitCreate"}) <= 1

\* C6: no engine issues a result fetch on a session handle whose remote close
\* has been issued (each fetch issued raises loopCount by one).
C6_NoFetchAfterClose ==
    [][\A e \in Execs :
          ex'[e].loopCount = ex[e].loopCount + 1 => ex'[e].session \notin gwClosed]_vars

\* C7: once cancelStatement has resolved for a registered statement, its engine
\* has unwound in phase STOPPED, it is not registered, and no state event was
\* published after 'cancelled'.
C7_CancelAfterUnwind ==
    \A e \in Execs :
        cancelCall[e] = "resolved" =>
            /\ Done(e)
            /\ Phase(e) = "STOPPED"
            /\ e \notin activeStatements
            /\ \A i, j \in DOMAIN events[e] :
                  (events[e][i] = "cancelled" /\ events[e][j] \in {"state_RUNNING", "state_STOPPED"})
                      => j < i

\* C10: a step that changes one engine's state (rows, columns, markers, phase)
\* leaves the other engine as it was; every accumulated row is a row of the
\* engine's own operation; and an engine that completes holds exactly the rows
\* of its own stream, in order.
RowsOwn(e) ==
    /\ \A i \in DOMAIN Results(e) : ResultValues(e)[i] \in RowsOf(e)
    /\ (Done(e) /\ ex[e].outcome = "COMPLETED") => ResultValues(e) = FieldsOf(script[e].evs)

C10_NoInterference ==
    [][\A e \in Execs :
          /\ RowsOwn(e)'
          /\ \A o \in Execs \ {e} :
                ex'[e].state # ex[e].state => ex'[o] = ex[o]]_vars

\* Both engines polling at once with rows accumulated, then one stopped by an
\* error while the other goes on.
C10_Witness ==
    /\ Done("s1")
    /\ ex["s1"].outcome = "FAILED"
    /\ Len(Results("s1")) >= 1
    /\ ex["s2"].pc = "sleeping"
    /\ Len(Results("s2")) >= 1

(***************************************************************************)
(* Failures and the fetch ceiling of one execution (SpecExec).             *)
(***************************************************************************)
\* How many times an event was published for a statement.
Published(log, ev) == Cardinality({i \in DOMAIN log : log[i] = ev})

HasErrorMarkers(e) ==
    /\ Phase(e) = "STOPPED"
    /\ ex[e].state.resultType = "ERROR"
    /\ ex[e].state.resultKind = "ERROR"

C12_FetchCeiling ==
    /\ [](\A e \in Execs : ex[e].loopCount <= maxLoops)
    /\ ((ex["s1"].pc # "idle" /\ script["s1"] = Endless) ~> Done("s1"))

\* The ceiling ended an execution that was neither cancelled nor failed.
C12_Witness ==
    /\ Done("s1")
    /\ script["s1"] = Endless
    /\ ex["s1"].loopCount = maxLoops
    /\ ex["s1"].outcome = "COMPLETED"
    /\ ex["s1"].state.resultType = "PAYLOAD"
    /\ cancelCall["s1"] = "none"

(***************************************************************************)
(* The session calls (SpecSession).                                        *)
(***************************************************************************)
\* C13: getSession() inside an execution.  When a session is current it is
\* returned and no create is issued (the session reference and the gateway's
\* handle counter stay as they are).  When none is current one createSession
\* call is issued, and its answer either makes the created session current and
\* returns it, or fails the execution with the error published and no current
\* session left.
C13_GetOrCreate ==
    [][\A e \in Execs :
          /\ (ex[e].pc = "idle" /\ ex'[e].pc # "idle")
                => /\ currentSession' = currentSession
                   /\ nextHandle' = nextHandle
                   /\ IF currentSession # NoSession
                      THEN /\ ex'[e].pc = "awaitValidate"
                           /\ ex'[e].session = currentSession
                      ELSE ex'[e].pc = "awaitCreate"
          /\ (ex[e].pc = "awaitCreate" /\ ex'[e].pc # "awaitCreate")
                => \/ /\ ex'[e].pc = "awaitValidate"
                      /\ nextHandle' = nextHandle + 1
                      /\ currentSession' = nextHandle
                      /\ ex'[e].session = currentSession'
                   \/ /\ ex'[e].pc = "done"
                      /\ ex'[e].outcome = "FAILED"
                      /\ ex'[e].session = NoSession
                      /\ nextHandle' = nextHandle
                      /\ currentSession' = NoSession
                      /\ Published(events'[e], "error") = 1]_vars

\* One statement created the session and the other reused it: one handle was
\* handed out.
C13_Witness ==
    /\ ex["s1"].session = 1
    /\ ex["s2"].session = 1
    /\ nextHandle = 2
    /\ currentSession = 1
    /\ Done("s1")
    /\ Done("s2")

\* C14: the answer to validateSession()'s probe never fails the execution:
\* either the session is valid and stays current, or validateSession clears the
\* current session and returns false, no handle being created in that call (the
\* createSession that follows is executeSQL's own).  The answer to
\* closeSession()'s remote close, success or failure, clears the current
\* session and the call does not throw.
C14_ValidateCloseAbsorb ==
    [][/\ \A e \in Execs :
             (ex[e].pc = "awaitValidate" /\ ex'[e].pc # "awaitValidate")
                => /\ ex'[e].outcome = "none"
                   /\ Published(events'[e], "error") = 0
                   /\ nextHandle' = nextHandle
                   /\ \/ ex'[e].pc = "awaitSubmit" /\ currentSession' = currentSession
                      \/ ex'[e].pc = "awaitRecreate" /\ currentSession' = NoSession
       /\ (closeCall.pc = "awaitClose" /\ closeCall'.pc # "awaitClose")
             => /\ currentSession' = NoSession
                /\ ~closeCall'.raised
                /\ closeCall'.pc = IF closeCall.refresh THEN "awaitCreate" ELSE "done"]_vars

\* The remote close was answered, then a validity probe failed.
C14_Witness ==
    /\ closeCall.pc = "done"
    /\ ~closeCall.raised
    /\ ex["s1"].pc = "awaitRecreate"
    /\ ex["s1"].session = 1
    /\ currentSession = NoSession
    /\ nextHandle = 2

(***************************************************************************)
(* The registry and the published events (Spec).                           *)
(***************************************************************************)
InFlight(e) == ex[e].pc \notin {"idle", "done"}

\* C15: a statement whose execute call has returned or thrown is not in the
\* registry, a registered statement is in phase RUNNING, and when no execute
\* call is in flight the registry is empty.
C15_RegistryOnlyRunning ==
    /\ \A e \in Execs : Done(e) => e \notin activeStatements
    /\ \A e \in activeStatements : Phase(e) = "RUNNING"
    /\ (\A e \in Execs : ~InFlight(e)) => activeStatements = {}

\* Both statements ended by themselves, one completed and one failed, with no
\* cancel or close call involved.
C15_Witness ==
    /\ ex["s1"].outcome = "COMPLETED"
    /\ ex["s2"].outcome = "FAILED"
    /\ Done("s1")
    /\ Done("s2")
    /\ activeStatements = {}
    /\ closeCall.pc = "idle"
    /\ \A e \in Execs : cancelCall[e] = "none"

StateEvents == {"state_RUNNING", "state_STOPPED"}

\* C16: for every statement, 'started' is the first event that global observers
\* receive, before any state event, and 'completed' or 'error' is received only
\* after the engine's STOPPED state event.
C16_LifecycleOrder ==
    \A e \in Execs :
        \A i \in DOMAIN events[e] :
            /\ events[e][i] \in StateEvents
                  => \E j \in 1..(i - 1) : events[e][j] = "started"
            /\ events[e][i] \in {"completed", "error"}
                  => \E j \in 1..(i - 1) : events[e][j] = "state_STOPPED"

\* One statement completed and the other failed, each with its events in order.
C16_Witness ==
    /\ Done("s1")
    /\ Done("s2")
    /\ events["s1"][1] = "started"
    /\ events["s1"][Len(events["s1"])] = "completed"
    /\ events["s1"][Len(events["s1"]) - 1] = "state_STOPPED"
    /\ events["s2"][1] = "started"
    /\ events["s2"][Len(events["s2"])] = "error"
    /\ Len(Results("s2")) >= 1

\* C17: a cancelStatement call for an id that is not registered answers 'not
\* found' and changes nothing else: no event is published and the registry and
\* every engine stay as they are.
C17_CancelNotFound ==
    [][\A e \in Execs :
          (cancelCall[e] = "none" /\ cancelCall'[e] # "none" /\ e \notin activeStatements)
              => /\ cancelCall'[e] = "notfound"
                 /\ ex' = ex
                 /\ events' = events
                 /\ activeStatements' = activeStatements
                 /\ currentSession' = currentSession]_vars

\* 'Not found' for a statement that has ended while the other is running, and
\* for a statement that was never started.
C17_Witness ==
    /\ cancelCall["s1"] = "notfound"
    /\ Done("s1")
    /\ Published(events["s1"], "cancelled") = 0
    /\ cancelCall["s2"] = "notfound"
    /\ ex["s2"].pc = "idle"

\* C18: cancelAllStatements sets the cancellation flag of every engine that is
\* registered when it is called, waits only for engines whose polling is still
\* pending, and ends, whether the awaited engines were cancelled, completed or
\* failed, with an empty registry and a report of exactly one entry for each
\* engine registered at the call and none for any other.
C18_CancelAll ==
    /\ [](cancelAllCall.pc = "awaitCancels"
            => /\ cancelAllCall.waiting # {}
               /\ \A e \in cancelAllCall.waiting : ex[e].currentPollingLoop = "pending")
    /\ [][/\ (cancelAllCall.pc = "idle" /\ cancelAllCall'.pc # "idle")
                => /\ cancelAllCall'.targets = activeStatements
                   /\ \A e \in activeStatements : ex'[e].cancelled
          /\ (cancelAllCall.pc # "done" /\ cancelAllCall'.pc = "done")
                => /\ activeStatements' = {}
                   /\ \A e \in Execs :
                         cancelAllCall'.report[e] =
                             IF e \in cancelAllCall'.targets THEN 1 ELSE 0]_vars

\* The call found both statements registered; while it waited one failed on a
\* fetch and the other stopped as cancelled; it ended with two entries.
C18_Witness ==
    /\ cancelAllCall.pc = "done"
    /\ cancelAllCall.targets = Execs
    /\ cancelAllCall.report = [e \in Execs |-> 1]
    /\ ex["s1"].outcome = "FAILED"
    /\ ex["s2"].outcome = "CANCELLED"
    /\ activeStatements = {}

AddRounds(e) == {i \in DOMAIN delivered[e] : delivered[e][i].cause = "add"}

\* C19: a call of addObserver hands the current state to the new observer, once
\* and before it returns, when the engine has at least one row or is RUNNING,
\* and calls nobody otherwise.
C19_ImmediateDelivery ==
    [][\A e \in Execs :
          (/\ Len(delivered'[e]) = Len(delivered[e]) + 1
           /\ delivered'[e][Len(delivered'[e])].cause = "add")
              => LET r == delivered'[e][Len(delivered'[e])]
                 IN /\ Cardinality(r.registered) = 1
                    /\ r.phase = ex[e].state.statementExecutionState
                    /\ r.rows = Len(ex[e].state.results)
                    /\ IF \/ Len(ex[e].state.results) > 0
                          \/ ex[e].state.statementExecutionState = "RUNNING"
                       THEN \A o \in r.registered : r.calls = <<o>>
                       ELSE r.calls = <<>>]_vars

\* One observer was added while the engine was RUNNING without rows and was
\* called; another was added after the engine had stopped without rows and was
\* not.
C19_Witness ==
    \E i, j \in AddRounds("s1") :
        /\ delivered["s1"][i].phase = "RUNNING"
        /\ delivered["s1"][i].rows = 0
        /\ Len(delivered["s1"][i].calls) = 1
        /\ delivered["s1"][j].phase = "STOPPED"
        /\ delivered["s1"][j].rows = 0
        /\ delivered["s1"][j].calls = <<>>

NotifyRounds(e) == {i \in DOMAIN delivered[e] : delivered[e][i].cause # "add"}

CallsTo(r, o) == Cardinality({i \in DOMAIN r.calls : r.calls[i] = o})

\* C20: in every notification of the engine's observers and of the global
\* observers, each observer registered when the notification began is called
\* exactly once, also when observers remove themselves while being called, and
\* nobody else is called.
C20_SelfRemovalSafe ==
    \A e \in Execs :
        \A i \in NotifyRounds(e) :
            LET r == delivered[e][i]
            IN /\ \A o \in r.registered : CallsTo(r, o) = 1
               /\ \A k \in DOMAIN r.calls : r.calls[k] \in r.registered

\* An observer of the engine, and a global observer, removed itself while being
\* called, and an observer registered after it was still called.
C20_Witness ==
    \A cause \in {"notify", "publish"} :
        \E i \in NotifyRounds("s1") :
            LET r == delivered["s1"][i]
            IN /\ r.cause = cause
               /\ \E k, l \in DOMAIN r.calls :
                     /\ k < l
                     /\ r.calls[k] \in r.removed
                     /\ r.calls[l] \notin r.removed

\* C21: when the validity probe of an execution has failed and its
\* createSession() has answered, the statement is submitted on the handle of
\* the session just created, not on the handle whose probe failed.
C21_SubmitOnRecreated ==
    [][\A e \in Execs :
          (ex[e].pc = "awaitRecreate" /\ ex'[e].pc = "awaitSubmit")
              => /\ currentSession' # ex[e].session
                 /\ ex'[e].session = currentSession']_vars

\* A remote createSession answered or failed, a validity probe failed, or the
\* remote close of the current session answered or failed, in this step.
SessionOperationEnds ==
    \/ nextHandle' # nextHandle
    \/ \E e \in Execs : /\ ex[e].pc \in {"awaitCreate", "awaitRecreate", "awaitValidate"}
                        /\ ex'[e].pc \in {"done", "awaitRecreate"}
                        /\ ex'[e].pc # ex[e].pc
    \/ closeCall.pc = "awaitClose" /\ closeCall'.pc # "awaitClose"
    \/ closeCall.pc = "awaitCreate" /\ closeCall'.pc # "awaitCreate"

\* C22: in the step in which a session operation ends, or the current session
\* or the session properties change, every registered listener is called once,
\* with the session info of the state the step leaves; a listener is never
\* called otherwise.
C22_ListenersSeeChange ==
    [][/\ (\/ SessionOperationEnds
           \/ currentSession' # currentSession
           \/ sessionProperties' # sessionProperties)
          => \A l \in listeners :
                heard'[l] = Heard(heard[l].calls + 1,
                                  getSessionInfo(currentSession', sessionProperties'))
       /\ \A l \in SessionListeners :
             heard'[l] # heard[l]
                => /\ l \in listeners
                   /\ \/ SessionOperationEnds
                      \/ sessionProperties' # sessionProperties]_vars

\* Two listeners have each heard five calls: a create, a failed probe, a failed
\* create that ended the statement, new properties, and the failed create of a
\* refresh.
C22_Witness ==
    /\ listeners = SessionListeners
    /\ \A l \in listeners :
          heard[l] = Heard(5, getSessionInfo(NoSession, 1))
    /\ nextHandle = 2
    /\ ex["s1"].outcome = "FAILED"
    /\ closeCall.raised

\* Scenario A: page 1 carries the columns [id, name], INSERT(1,"a") and a
\* pointer to page 2; page 2 carries INSERT(2,"b") and end-of-stream.
ScenarioA ==
    Stream(<<Event("INSERT", <<"1", "a">>), Event("INSERT", <<"2", "b">>)>>,
           <<1, 1>>, "first", "SUCCESS_WITH_CONTENT", "eos")

\* C23: the execution of Scenario A issues two fetches, holds <<1, a>> after
\* the first page, and ends completed in phase STOPPED with end-of-stream
\* marked, the columns of page 1 and the rows <<1, a>>, <<2, b>> in that order.
C23_ScenarioA ==
    script["s1"] = ScenarioA =>
        /\ ex["s1"].loopCount <= 2
        /\ ex["s1"].outcome \in {"none", "COMPLETED"}
        /\ ex["s1"].loopCount = 2 /\ ~Done("s1")
              => ResultValues("s1") = <<(<<"1", "a">>)>>
        /\ Done("s1")
              => /\ ResultValues("s1") = <<(<<"1", "a">>), (<<"2", "b">>)>>
                 /\ Phase("s1") = "STOPPED"
                 /\ ex["s1"].outcome = "COMPLETED"
                 /\ ex["s1"].state.resultType = "EOS"
                 /\ ex["s1"].state.columns = ColsA
                 /\ ex["s1"].loopCount = 2

C23_Witness ==
    /\ script["s1"] = ScenarioA
    /\ Done("s1")
    /\ ex["s1"].outcome = "COMPLETED"
    /\ Len(Results("s1")) = 2

\* Scenario C without the remote part: when the sleep between two fetches ends
\* after cancel() has set the flag, no further fetch is started and the
\* execution ends in that step, cancelled, in phase STOPPED with the CANCELLED
\* markers, its rows as they were, having entered the remote-cancel block once.
ScenarioCLocal ==
    [][\A e \in Execs :
          (ex[e].pc = "sleeping" /\ ex[e].cancelled /\ ex'[e].pc # "sleeping")
              => /\ ex'[e].pc = "done"
                 /\ ex'[e].loopCount = ex[e].loopCount
                 /\ ex'[e].outcome = "CANCELLED"
                 /\ ex'[e].state.statementExecutionState = "STOPPED"
                 /\ ex'[e].state.resultType = "CANCELLED"
                 /\ ex'[e].state.results = ex[e].state.results
                 /\ ex'[e].cancelAttempts = 1]_vars

\* C24: when the sleep between two fetches ends after cancel() has set the
\* flag, the execution ends as ScenarioCLocal says and in that step exactly one
\* cancel request for its operation has been sent to the gateway.
C24_ScenarioC ==
    /\ ScenarioCLocal
    /\ [][\A e \in Execs :
             (ex[e].pc = "sleeping" /\ ex[e].cancelled /\ ex'[e].pc # "sleeping")
                 => ex'[e].remoteCancels = ex[e].remoteCancels + 1]_vars

\* The statements of the batch are executed one after another in order: a
\* statement is started only when every earlier one has ended and the batch
\* has reached it.
BatchInOrder ==
    [][\A k \in 1..Len(BatchStatements) :
          (ex[BatchStatements[k]].pc = "idle" /\ ex'[BatchStatements[k]].pc # "idle")
              => /\ batch.i = k
                 /\ \A j \in 1..(k - 1) : Done(BatchStatements[j])]_vars

\* C25: the batch runs its statements in order, and when it has finished every
\* statement has been executed and has an entry in the results, whether or not
\* an earlier statement failed.
C25_BatchRunsAll ==
    /\ BatchInOrder
    /\ [](batch.pc = "finished"
             => /\ Len(batch.results) = Len(BatchStatements)
                /\ \A k \in 1..Len(BatchStatements) : Done(BatchStatements[k]))

\* q without its element at index i.
Without(q, i) == [j \in 1..(Len(q) - 1) |-> IF j < i THEN q[j] ELSE q[j + 1]]

RowsBeforeRemoval(e) ==
    LET data == PageAt(ex[e].operationHandle, ex[e].nextToken).data
    IN ex[e].state.results
          \o [i \in 1..(Len(data) - 1) |-> RowObject(data[i].fields, ex[e].state.columns)]

\* The row object of the removal at the end of that page.
RemovalTarget(e) ==
    LET data == PageAt(ex[e].operationHandle, ex[e].nextToken).data
    IN RowObject(data[Len(data)].fields, ex[e].state.columns)

\* The step folds a page of INSERTs followed by one UPDATE_BEFORE or DELETE.
FoldsRemoval(e) ==
    LET data == PageAt(ex[e].operationHandle, ex[e].nextToken).data
    IN /\ ex[e].pc = "awaitFetch"
       /\ ex'[e].pc # "awaitFetch"
       /\ Len(data) >= 1
       /\ IsRemove(data[Len(data)])
       /\ \A i \in 1..(Len(data) - 1) : data[i].kind = "INSERT"

\* Equal in every field, a null and an absent field counting as equal.
AlikeNullAbsent(a, b) ==
    \A k \in Keys(a) \cup Keys(b) :
        \/ Val(a, k) = Val(b, k)
        \/ {Val(a, k), Val(b, k)} = {Null, Undefined}

\* Equal in every field, a null field equal only to a null field and an absent
\* field only to an absent one.
SameFields(a, b) ==
    /\ Keys(a) = Keys(b)
    /\ \A k \in Keys(a) : Val(a, k) = Val(b, k)

\* C27 as stated: an UPDATE_BEFORE / DELETE removes a row when some row equals
\* its row in every field, null and absent fields treated alike.
C27_NullMatchesAbsent ==
    [][\A e \in Execs :
          (/\ FoldsRemoval(e)
           /\ \E i \in DOMAIN RowsBeforeRemoval(e) :
                 AlikeNullAbsent(RowsBeforeRemoval(e)[i], RemovalTarget(e)))
              => ex'[e].state.results # RowsBeforeRemoval(e)]_vars

\* C27 as amended: an UPDATE_BEFORE / DELETE removes a row exactly when some row
\* has the same fields as its row with the same values, null equal to null
\* only; a row with a null field and a row where that field is absent differ.
C27_NullMatchesNullOnly ==
    [][\A e \in Execs :
          FoldsRemoval(e)
              => ((ex'[e].state.results # RowsBeforeRemoval(e))
                    <=> \E i \in DOMAIN RowsBeforeRemoval(e) :
                           SameFields(RowsBeforeRemoval(e)[i], RemovalTarget(e)))]_vars

\* A row with a null second field was inserted and then deleted by an event
\* with the same null (nothing is left); and a row with a null second field
\* is still there after a DELETE whose row lacks the second field.
C27_Witness ==
    /\ Done("s1")
    /\ script["s1"].evs[1].fields = <<"1", Null>>
    /\ script["s1"].evs[2].kind = "DELETE"
    /\ \/ script["s1"].evs[2].fields = <<"1", Null>> /\ Results("s1") = <<>>
       \/ script["s1"].evs[2].fields = <<"1">> /\ Len(Results("s1")) = 1

\* The page carries a further-page pointer: a link that names a result token.
HasPointer(page) ==
    /\ page.nextResultUri # NoUri
    /\ Len(page.nextResultUri) = 2
    /\ page.nextResultUri[1] = "result"

\* C28: the first fetch uses token 0; when a page has been received (and the
\* execution was neither cancelled nor did the fetch fail) the loop goes on to
\* the sleep exactly when the page is not end-of-stream and carries a
\* further-page pointer, with the token of that pointer, which the next fetch
\* then uses; otherwise the loop stops with outcome COMPLETED.
C28_Continuation ==
    [][\A e \in Execs :
          /\ (ex[e].pc # "awaitFetch" /\ ex'[e].pc = "awaitFetch" /\ ex'[e].loopCount = 1)
                => ex'[e].nextToken = 0
          /\ (/\ ex[e].pc = "awaitFetch"
              /\ ex'[e].pc # "awaitFetch"
              /\ ~ex[e].cancelled
              /\ ex'[e].outcome # "FAILED")
                => LET page == PageAt(ex[e].operationHandle, ex[e].nextToken)
                   IN IF page.resultType # "EOS" /\ HasPointer(page)
                      THEN /\ ex'[e].pc = "sleeping"
                           /\ ex'[e].nextToken = page.nextResultUri[2]
                      ELSE /\ ex'[e].pc = "done"
                           /\ ex'[e].outcome = "COMPLETED"
          /\ (ex[e].pc = "sleeping" /\ ex'[e].pc = "awaitFetch")
                => /\ ex'[e].nextToken = ex[e].nextToken
                   /\ ex'[e].loopCount = ex[e].loopCount + 1]_vars

\* Two pages were fetched, the second with the token the first page's pointer
\* named, and the second, an end-of-stream page that still carries a pointer,
\* ended the loop with COMPLETED.
C28_Witness ==
    /\ Done("s1")
    /\ script["s1"].tail = "eosuri"
    /\ NumPages(script["s1"]) = 2
    /\ ex["s1"].loopCount = 2
    /\ ex["s1"].nextToken = 1
    /\ ex["s1"].outcome = "COMPLETED"
    /\ Len(Results("s1")) = 2

\* C29: an execution never has more than one result fetch unanswered; a fetch
\* is issued only when none is unanswered, and a page is folded only as the
\* answer to the one fetch that is, so pages are folded in the order their
\* fetches were issued; and the events of a page are applied in arrival
\* order: a page of INSERT / UPDATE_AFTER events appends their rows, in the
\* page's order, to the rows accumulated before.
C29_OneFetchInOrder ==
    [][\A e \in Execs :
          /\ ex'[e].inflight \in {0, 1}
          /\ ex'[e].loopCount # ex[e].loopCount
                => /\ ex'[e].loopCount = ex[e].loopCount + 1
                   /\ ex[e].inflight = 0
                   /\ ex'[e].inflight = 1
          /\ (ex'[e].state.results # ex[e].state.results /\ ex[e].pc # "idle")
                => /\ ex[e].inflight = 1
                   /\ ex'[e].inflight = 0
          /\ (ex'[e].pc = "done" /\ ex'[e].outcome # "FAILED") => ex'[e].inflight = 0
          /\ (/\ ex[e].pc = "awaitFetch"
              /\ ex'[e].pc # "awaitFetch"
              /\ ~ex[e].cancelled
              /\ ex'[e].outcome # "FAILED")
                => LET page == PageAt(ex[e].operationHandle, ex[e].nextToken)
                   IN (/\ page.resultKind = "SUCCESS_WITH_CONTENT"
                       /\ \A i \in DOMAIN page.data : IsAppend(page.data[i]))
                      => ResultValues(e)' = ResultValues(e) \o FieldsOf(page.data)]_vars

\* Two pages of one row each were fetched one after the other and folded: the
\* two rows are there in the order sent, and no fetch is unanswered.
C29_Witness ==
    /\ Done("s1")
    /\ ex["s1"].loopCount = 2
    /\ ex["s1"].inflight = 0
    /\ script["s1"].comp = <<1, 1>>
    /\ ResultValues("s1") = <<(<<"1", "a">>), (<<"2", "b">>)>>
    /\ ex["s1"].outcome = "COMPLETED"

\* C30: once the cancellation flag of an execution is set, no step issues a
\* result fetch for it, and the step in which a page arrives leaves the rows
\* and the columns as they were and records the cancellation markers, not the
\* page's result type and result kind; no later step changes rows or columns.
C30_LatePageDiscarded ==
    [][\A e \in Execs :
          (ex[e].cancelled /\ ex[e].pc # "idle")
              => /\ ex'[e].cancelled
                 /\ ex'[e].loopCount = ex[e].loopCount
                 /\ ex'[e].inflight <= ex[e].inflight
                 /\ ex'[e].state.results = ex[e].state.results
                 /\ ex'[e].state.columns = ex[e].state.columns
                 /\ (ex[e].pc = "awaitFetch" /\ ex'[e].pc # "awaitFetch"
                        /\ ex'[e].outcome # "FAILED")
                       => /\ ex'[e].pc = "done"
                          /\ ex'[e].outcome = "CANCELLED"
                          /\ ex'[e].state.resultType = "CANCELLED"
                          /\ ex'[e].state.resultKind = "CANCELLED"
                          /\ ex'[e].diag = ex[e].diag]_vars

\* The second page, which carries a row and the first column list of the
\* stream, arrived after cancel(): the execution ended cancelled after two
\* fetches with the one row of the first page and without columns.
C30_Witness ==
    /\ Done("s1")
    /\ ex["s1"].outcome = "CANCELLED"
    /\ ex["s1"].loopCount = 2
    /\ script["s1"].mode = "late"
    /\ script["s1"].comp = <<1, 1>>
    /\ Len(Results("s1")) = 1
    /\ ex["s1"].state.columns = NoCols
    /\ ex["s1"].state.resultType = "CANCELLED"

\* The rounds of calls notifyObservers made for one statement.
EngineRounds(q) == Cardinality({i \in DOMAIN q : q[i].cause = "notify"})

\* C31: in every step the observers of an execution are notified as often as
\* its last-update time is set, and that happens if and only if the step
\* changed a field of its state: an update that changes nothing leaves the
\* state and the time as they were and calls no observer.
C31_PublishOnlyChanges ==
    [][\A e \in Execs :
          LET added == EngineRounds(delivered'[e]) - EngineRounds(delivered[e])
          IN /\ added = ex'[e].lastUpdateTime - ex[e].lastUpdateTime
             /\ (ex'[e].state = ex[e].state) <=> (added = 0)]_vars

\* The endless stream: three pages were received, the second and third of
\* which repeated the markers of the first; the state was published twice,
\* at the start and for the first page.
C31_Witness ==
    /\ script["s1"] = Endless
    /\ ex["s1"].pc = "sleeping"
    /\ ex["s1"].loopCount = 3
    /\ ex["s1"].lastUpdateTime = 2
    /\ EngineRounds(delivered["s1"]) = 2

\* C32: when a page whose events are INSERTs and events of an unrecognized
\* kind is folded, the rows of all its events are appended, in the page's
\* order, to the rows accumulated before, one diagnostic is recorded for each
\* event of unrecognized kind, and the execution goes on (to the sleep, or to
\* its end with COMPLETED): it does not fail.
C32_UnknownKindAsInsert ==
    [][\A e \in Execs :
          (ex[e].pc = "awaitFetch" /\ ex'[e].pc # "awaitFetch")
              => LET data == PageAt(ex[e].operationHandle, ex[e].nextToken).data
                     unknown == {i \in DOMAIN data : data[i].kind \notin FoldKinds}
                 IN (/\ unknown # {}
                     /\ \A i \in DOMAIN data \ unknown : data[i].kind = "INSERT")
                    => /\ ResultValues(e)' = ResultValues(e) \o FieldsOf(data)
                       /\ ex'[e].diag = ex[e].diag + Cardinality(unknown)
                       /\ ex'[e].outcome # "FAILED"
                       /\ ex'[e].pc = "sleeping" \/ ex'[e].outcome = "COMPLETED"]_vars

\* An INSERT and then an event of an unrecognized kind, on one page: both rows
\* are there in order, with one diagnostic, and the execution completed.
C32_Witness ==
    /\ Done("s1")
    /\ Len(script["s1"].evs) = 2
    /\ script["s1"].evs[1].kind = "INSERT"
    /\ script["s1"].evs[1].fields = <<"2", "b">>
    /\ script["s1"].evs[2].kind \notin FoldKinds
    /\ script["s1"].comp = <<2>>
    /\ ResultValues("s1") = <<(<<"2", "b">>), script["s1"].evs[2].fields>>
    /\ ex["s1"].diag = 1
    /\ ex["s1"].outcome = "COMPLETED"

\* C33: the accumulated rows of an execution all have the same keys, and once
\* a column list is stored every accumulated row is keyed by its column names.
C33_RowsKeyedBySchema ==
    \A e \in Execs :
        /\ \A i, j \in DOMAIN Results(e) : Keys(Results(e)[i]) = Keys(Results(e)[j])
        /\ Len(ex[e].state.columns) > 0
              => \A i \in DOMAIN Results(e) :
                    Keys(Results(e)[i])
                        \subseteq {ex[e].state.columns[k] : k \in DOMAIN ex[e].state.columns}

\* C34: an execution that is in phase RUNNING and for which no cancel was
\* requested is in the registry under its statement id.
C34_RunningIsRegistered ==
    \A e \in Execs :
        (ex[e].pc \notin {"idle", "done"} /\ Phase(e) = "RUNNING" /\ ~ex[e].cancelled)
            => e \in activeStatements

\* The terminal lifecycle events published so far for statement e.
TerminalEvents(e) ==
    Published(events[e], "completed") + Published(events[e], "error")
        + Published(events[e], "cancelled")

\* C35: for each statement at most one terminal lifecycle event is ever
\* published, and once its execution has ended exactly one has been.
C35_OneTerminalEvent ==
    \A e \in Execs :
        /\ TerminalEvents(e) <= 1
        /\ Done(e) => TerminalEvents(e) = 1

\* C36: whenever getSession() hands a session to an execution, a reused one or
\* a newly created one, no remote close has been issued for its handle.
C36_GetSessionNotClosing ==
    [][\A e \in Execs :
          (ex'[e].session # ex[e].session /\ ex'[e].session # NoSession)
              => ex'[e].session \notin gwClosed']_vars

\* C37: when a validity probe or a remote close ends while the current session
\* is another one than the one probed or closed, the current session stays.
C37_ClearsOnlyOwnSession ==
    [][/\ \A e \in Execs :
             (/\ ex[e].pc = "awaitValidate"
              /\ ex'[e].pc # "awaitValidate"
              /\ currentSession \notin {NoSession, ex[e].session})
                => currentSession' = currentSession
       /\ (/\ closeCall.pc = "awaitClose"
           /\ closeCall'.pc # "awaitClose"
           /\ currentSession \notin {NoSession, closeCall.handle})
             => currentSession' = currentSession]_vars

\* C38: an execution whose cancellation flag was set while it was obtaining or
\* validating the session never goes on to issue submitStatement.
C38_NoSubmitAfterCancel ==
    [][\A e \in Execs :
          (ex[e].cancelled /\ ex[e].pc \in {"awaitCreate", "awaitValidate", "awaitRecreate"})
              => ex'[e].pc # "awaitSubmit"]_vars

\* C39: when the sleep after the last permitted fetch ends and the execution
\* was not cancelled, no further fetch is issued and the execution ends with
\* outcome COMPLETED in phase STOPPED, with the rows, the columns and the
\* result-type and result-kind markers as the last page left them.
C39_CeilingCompletes ==
    [][\A e \in Execs :
          (/\ ex[e].pc = "sleeping"
           /\ ex[e].loopCount = maxLoops
           /\ ~ex[e].cancelled
           /\ ex'[e].pc # "sleeping")
              => /\ ex'[e].pc = "done"
                 /\ ex'[e].loopCount = maxLoops
                 /\ ex'[e].outcome = "COMPLETED"
                 /\ ex'[e].state = [ex[e].state EXCEPT !.statementExecutionState = "STOPPED"]]_vars

\* The stream that never ends after one row was stopped by the ceiling: the
\* row and the PAYLOAD marker of the last page are still there.
C39_Witness ==
    /\ Done("s1")
    /\ script["s1"] = EndlessAfterRow("s1")
    /\ ex["s1"].loopCount = maxLoops
    /\ ex["s1"].outcome = "COMPLETED"
    /\ Phase("s1") = "STOPPED"
    /\ ResultValues("s1") = <<(<<"1", "a">>)>>
    /\ ex["s1"].state.resultType = "PAYLOAD"
    /\ ex["s1"].state.resultKind = "SUCCESS_WITH_CONTENT"

\* The hook's observer functions that StatementManager.globalObservers holds.
HookRegistered == Ids(globalObservers) \cap HookObservers

\* C40: at most one observer function of the hook instance is registered with
\* the StatementManager at any time, and once cleanup has run (observerRef is
\* empty) none of them is registered.
C40_OneObserverPerHook ==
    /\ Cardinality(HookRegistered) <= 1
    /\ hook.observerRef = "null" => HookRegistered = {}

====
